---- MODULE Spec2Model ----
(***************************************************************************)
(* Model of the local live-trading command of the Lean CLI                 *)
(* (lean/commands/live.py): the requirement tables, the requirement        *)
(* validator _raise_for_missing_properties and the part of the `live`      *)
(* command body that checks the selected environment and then hands the    *)
(* configuration to the launcher.                                          *)
(*                                                                         *)
(* JSON values of the Lean configuration are tagged records, so that       *)
(* Python's `==` and truthiness are modelled by what they do on strings,   *)
(* booleans and numbers.                                                   *)
(***************************************************************************)
EXTENDS Integers, Sequences, FiniteSets, TLC

\* ------------------------------------------------------------------------
\* Bounds of the model
\* ------------------------------------------------------------------------

\* The largest number of drawn property keys that deviate from "present with
\* a plain non-empty string" in a stored configuration
MaxDeviations == 2

\* ------------------------------------------------------------------------
\* JSON / Python values
\* ------------------------------------------------------------------------

Str(s) == [t |-> "str", s |-> s]

Bool(b) == [t |-> "bool", b |-> b]

Num(n) == [t |-> "num", n |-> n]

\* int(v) of a bool or a number (True == 1, False == 0 in Python)
AsInt(v) == IF v.t = "bool" THEN (IF v.b THEN 1 ELSE 0) ELSE v.n

\* Python's v == w on strings, booleans and numbers
PyEq(v, w) ==
    IF v.t = "str" /\ w.t = "str" THEN v.s = w.s
    ELSE IF v.t = "str" \/ w.t = "str" THEN FALSE
    ELSE AsInt(v) = AsInt(w)

\* Python's bool(v)
PyTruthy(v) ==
    IF v.t = "str" THEN v.s # ""
    ELSE IF v.t = "bool" THEN v.b
    ELSE v.n # 0

Range(seq) == {seq[i] : i \in 1..Len(seq)}

\* The spelling of an identifier with the case of its letters ignored
CaseFolded(id) ==
    IF id \in {"OandaBrokerage", "oandabrokerage", "OANDABROKERAGE"} THEN "oandabrokerage" ELSE id

\* dict.get that matches the key case-insensitively
DictGetIgnoreCase(dict, key, default) ==
    IF key.t = "str" /\ \E k \in DOMAIN dict : CaseFolded(k) = CaseFolded(key.s)
    THEN dict[CHOOSE k \in DOMAIN dict : CaseFolded(k) = CaseFolded(key.s)]
    ELSE default

\* Python's dict.get(key, default) for a dict with string keys
DictGet(dict, key, default) ==
    IF key.t = "str" /\ key.s \in DOMAIN dict THEN dict[key.s] ELSE default

\* ------------------------------------------------------------------------
\* Requirement tables
\* ------------------------------------------------------------------------

IQFeedDataQueueHandler == "QuantConnect.ToolBox.IQFeed.IQFeedDataQueueHandler"

InteractiveBrokersDataQueueHandler ==
    "QuantConnect.Brokerages.InteractiveBrokers.InteractiveBrokersBrokerage"

DocumentationUrl ==
    "https://www.lean.io/docs/lean-cli/tutorials/live-trading/local-live-trading"

BrokerageNames ==
    {"InteractiveBrokersBrokerage", "TradierBrokerage", "OandaBrokerage", "GDAXBrokerage",
     "BitfinexBrokerage", "BinanceBrokerage", "ZerodhaBrokerage", "BloombergBrokerage"}

\* Brokerage -> required configuration properties
_required_brokerage_properties ==
    [b \in BrokerageNames |->
        CASE b = "InteractiveBrokersBrokerage" ->
                 <<"ib-account", "ib-user-name", "ib-password",
                   "ib-agent-description", "ib-trading-mode">>
          [] b = "TradierBrokerage" ->
                 <<"tradier-use-sandbox", "tradier-account-id", "tradier-access-token">>
          [] b = "OandaBrokerage" ->
                 <<"oanda-environment", "oanda-access-token", "oanda-account-id">>
          [] b = "GDAXBrokerage" ->
                 <<"gdax-api-secret", "gdax-api-key", "gdax-passphrase">>
          [] b = "BitfinexBrokerage" ->
                 <<"bitfinex-api-secret", "bitfinex-api-key">>
          [] b = "BinanceBrokerage" ->
                 <<"binance-api-secret", "binance-api-key">>
          [] b = "ZerodhaBrokerage" ->
                 <<"zerodha-access-token", "zerodha-api-key", "zerodha-product-type",
                   "zerodha-trading-segment">>
          [] b = "BloombergBrokerage" ->
                 <<"job-organization-id", "bloomberg-api-type", "bloomberg-environment",
                   "bloomberg-server-host", "bloomberg-server-port", "bloomberg-emsx-broker">>]

DataQueueHandlerNames ==
    {InteractiveBrokersDataQueueHandler, "TradierBrokerage", "OandaBrokerage",
     "GDAXDataQueueHandler", "BitfinexBrokerage", "BinanceBrokerage", "ZerodhaBrokerage",
     "BloombergBrokerage", IQFeedDataQueueHandler}

\* A data queue handler table written out by hand, in which the Zerodha entry
\* lacks a property of the Zerodha brokerage and the Interactive Brokers entry
\* lacks the feed-only key
HandWrittenDataQueueHandlerProperties ==
    [d \in DataQueueHandlerNames |->
        CASE d = InteractiveBrokersDataQueueHandler ->
                 <<"ib-account", "ib-user-name", "ib-password", "ib-agent-description">>
          [] d = "TradierBrokerage" ->
                 <<"tradier-use-sandbox", "tradier-account-id", "tradier-access-token">>
          [] d = "OandaBrokerage" ->
                 <<"oanda-environment", "oanda-access-token", "oanda-account-id">>
          [] d = "GDAXDataQueueHandler" -> <<"gdax-api-secret", "gdax-api-key", "gdax-passphrase">>
          [] d = "BitfinexBrokerage" -> <<"bitfinex-api-secret", "bitfinex-api-key">>
          [] d = "BinanceBrokerage" -> <<"binance-api-secret", "binance-api-key">>
          [] d = "ZerodhaBrokerage" ->
                 <<"zerodha-access-token", "zerodha-api-key", "zerodha-product-type",
                   "zerodha-history-subscription">>
          [] d = "BloombergBrokerage" ->
                 <<"job-organization-id", "bloomberg-api-type", "bloomberg-environment",
                   "bloomberg-server-host", "bloomberg-server-port", "bloomberg-emsx-broker">>
          [] d = IQFeedDataQueueHandler ->
                 <<"iqfeed-iqconnect", "iqfeed-productName", "iqfeed-version">>]

\* Data queue handler -> required configuration properties
_required_data_queue_handler_properties ==
    [d \in DataQueueHandlerNames |->
        CASE d = InteractiveBrokersDataQueueHandler ->
                 _required_brokerage_properties["InteractiveBrokersBrokerage"]
                     \o <<"ib-enable-delayed-streaming-data">>
          [] d = "TradierBrokerage" -> _required_brokerage_properties["TradierBrokerage"]
          [] d = "OandaBrokerage" -> _required_brokerage_properties["OandaBrokerage"]
          [] d = "GDAXDataQueueHandler" -> _required_brokerage_properties["GDAXBrokerage"]
          [] d = "BitfinexBrokerage" -> _required_brokerage_properties["BitfinexBrokerage"]
          [] d = "BinanceBrokerage" -> _required_brokerage_properties["BinanceBrokerage"]
          [] d = "ZerodhaBrokerage" ->
                 _required_brokerage_properties["ZerodhaBrokerage"]
                     \o <<"zerodha-history-subscription">>
          [] d = "BloombergBrokerage" -> _required_brokerage_properties["BloombergBrokerage"]
          [] d = IQFeedDataQueueHandler ->
                 <<"iqfeed-iqconnect", "iqfeed-productName", "iqfeed-version">>]

\* The data queue handler entry that is built from the entry of a brokerage:
\* the live data-queue-handler counterpart of the brokerage
DataQueueHandlerOf ==
    [b \in BrokerageNames |->
        CASE b = "InteractiveBrokersBrokerage" -> InteractiveBrokersDataQueueHandler
          [] b = "GDAXBrokerage" -> "GDAXDataQueueHandler"
          [] OTHER -> b]

\* Every property named by one of the two tables
AllProperties ==
    UNION {Range(_required_brokerage_properties[b]) : b \in BrokerageNames}
        \cup UNION {Range(_required_data_queue_handler_properties[d]) : d \in DataQueueHandlerNames}

\* The module-level dicts _required_brokerage_properties and
\* _required_data_queue_handler_properties, which the validator reads
VARIABLE requirement_tables

\* ------------------------------------------------------------------------
\* Errors
\* ------------------------------------------------------------------------

\* No exception has been raised
NoError ==
    [exc |-> "none", what |-> "none", env |-> "", keys |-> <<>>, path |-> FALSE, url |-> ""]

\* raise MoreInfoError(f"{lean_config_path} does not contain an environment named
\* '{environment_name}'", url)
EnvironmentUndeclared(name) ==
    [exc |-> "MoreInfoError", what |-> "EnvironmentUndeclared", env |-> name,
     keys |-> <<>>, path |-> TRUE, url |-> DocumentationUrl]

\* A not-live error whose message leaves the environment out
NotLiveEnvironmentUnnamed(name) ==
    [exc |-> "MoreInfoError", what |-> "NotLiveEnvironment", env |-> "",
     keys |-> <<>>, path |-> FALSE, url |-> DocumentationUrl]

\* raise MoreInfoError(f"The '{environment_name}' is not a live trading environment
\* (live-mode is set to false)", url)
NotLiveEnvironment(name) ==
    [exc |-> "MoreInfoError", what |-> "NotLiveEnvironment", env |-> name,
     keys |-> <<>>, path |-> FALSE, url |-> DocumentationUrl]

\* raise MoreInfoError(f"The '{environment_name}' environment does not specify a {key}", url)
MissingRequiredKey(name, key) ==
    [exc |-> "MoreInfoError", what |-> "MissingRequiredKey", env |-> name,
     keys |-> <<key>>, path |-> FALSE, url |-> DocumentationUrl]

\* raise RuntimeError("Please configure the following missing properties in
\* {lean_config_path}: ... Go to the following url ..."); lines is the list of
\* "- {p}" lines of the message
MissingRequiredProperties(lines) ==
    [exc |-> "RuntimeError", what |-> "MissingRequiredProperties", env |-> "",
     keys |-> lines, path |-> TRUE, url |-> DocumentationUrl]

\* environment["live-mode"] on an environment without that key
KeyError(key) ==
    [exc |-> "KeyError", what |-> "KeyError", env |-> "",
     keys |-> <<key>>, path |-> FALSE, url |-> ""]

\* ------------------------------------------------------------------------
\* Requirement validator
\* ------------------------------------------------------------------------

\* The iteration orders of a Python set: every arrangement of its elements
SetIterationOrders(S) ==
    {order \in [1..Cardinality(S) -> S] : Range(order) = S}

\* A check that takes every falsy value for missing: p not in lean_config or not lean_config[p]
IsMissingFalsy(lean_config, p) ==
    p \notin DOMAIN lean_config.top \/ ~PyTruthy(lean_config.top[p])

\* A check that forgets the empty string: p not in lean_config
IsMissingAbsentOnly(lean_config, p) ==
    p \notin DOMAIN lean_config.top

\* p not in lean_config or lean_config[p] == ""
IsMissing(lean_config, p) ==
    p \notin DOMAIN lean_config.top \/ PyEq(lean_config.top[p], Str(""))

\* The two keys in the other order
RequiredEnvironmentKeysReversed == <<"data-queue-handler", "live-mode-brokerage">>

\* The keys the loop of _raise_for_missing_properties goes through, in order
RequiredEnvironmentKeys == <<"live-mode-brokerage", "data-queue-handler">>

\* for key in [...]: if key not in environment: raise ...
\* The key the loop raises for (the first one the environment does not specify),
\* as a sequence of at most one key
FirstUnspecifiedKey(environment) ==
    LET unspecified == SelectSeq(RequiredEnvironmentKeys, LAMBDA key : key \notin DOMAIN environment)
    IN  IF unspecified = <<>> THEN <<>> ELSE <<Head(unspecified)>>

\* brokerage_properties + data_queue_handler_properties
RequiredProperties(environment) ==
    DictGet(requirement_tables.brokerage, environment["live-mode-brokerage"], <<>>)
        \o DictGet(requirement_tables.data_queue_handler, environment["data-queue-handler"], <<>>)

\* missing_properties = [p for p in required_properties
\*                       if p not in lean_config or lean_config[p] == ""]
MissingPropertiesList(lean_config, environment) ==
    SelectSeq(RequiredProperties(environment), LAMBDA p : IsMissing(lean_config, p))

\* The lines of a message built from the list without set(): duplicates are kept
MessageLinesOfList(missing_properties) ==
    {missing_properties}

\* missing_properties = set(missing_properties)
\* missing_properties = "\n".join(f"- {p}" for p in missing_properties)
\* The possible lists of lines of the message: the set in any iteration order
MessageLines(missing_properties) ==
    SetIterationOrders(Range(missing_properties))

\* A validator that reads the brokerage's requirements before it checks that
\* data-queue-handler is specified
RaiseForBrokeragePropertiesFirst(lean_config, name) ==
    LET environment == lean_config.environments[name]
        unspecified == FirstUnspecifiedKey(environment)
        brokerage_missing ==
            IF "live-mode-brokerage" \in DOMAIN environment
            THEN SelectSeq(DictGet(requirement_tables.brokerage,
                                   environment["live-mode-brokerage"], <<>>),
                           LAMBDA p : IsMissing(lean_config, p))
            ELSE <<>>
    IN  IF brokerage_missing # <<>>
        THEN {[error |-> MissingRequiredProperties(lines), consulted |-> TRUE] :
                 lines \in MessageLines(brokerage_missing)}
        ELSE IF unspecified # <<>>
        THEN {[error |-> MissingRequiredKey(name, unspecified[1]), consulted |-> TRUE]}
        ELSE LET missing_properties == MissingPropertiesList(lean_config, environment)
             IN  IF Cardinality(Range(missing_properties)) = 0
                 THEN {[error |-> NoError, consulted |-> TRUE]}
                 ELSE {[error |-> MissingRequiredProperties(lines), consulted |-> TRUE] :
                          lines \in MessageLines(missing_properties)}

\* The outcomes of _raise_for_missing_properties(lean_config, environment_name, path):
\* the exception raised (NoError when it returns) and whether the requirement
\* tables were read. The lines of the message follow the iteration order of a set.
_raise_for_missing_properties(lean_config, name) ==
    LET environment == lean_config.environments[name]
        unspecified == FirstUnspecifiedKey(environment)
    IN  IF unspecified # <<>>
        THEN {[error |-> MissingRequiredKey(name, unspecified[1]), consulted |-> FALSE]}
        ELSE LET missing_properties == MissingPropertiesList(lean_config, environment)
             IN  IF Cardinality(Range(missing_properties)) = 0
                 THEN {[error |-> NoError, consulted |-> TRUE]}
                 ELSE {[error |-> MissingRequiredProperties(lines), consulted |-> TRUE] :
                          lines \in MessageLines(missing_properties)}

\* ------------------------------------------------------------------------
\* Drawn configurations
\* ------------------------------------------------------------------------

\* A key that is not in a mapping (used only while drawing configurations)
Absent == [t |-> "absent"]

\* The property keys whose value varies over the drawn configurations
DrawnKeys ==
    {"oanda-environment", "oanda-access-token", "oanda-account-id",
     "iqfeed-iqconnect", "ib-account", "ib-enable-delayed-streaming-data"}

\* What a deviating key holds: nothing, the empty string, false or zero
DeviantValues == {Absent, Str(""), Bool(FALSE), Num(0)}

\* The top-level keys of the drawn configurations: every property of the tables
\* holds a plain string except for at most MaxDeviations of the drawn keys
DrawnTops ==
    UNION {
        {[k \in ((AllProperties \cup {"data-folder"}) \ {d \in D : dv[d] = Absent}) |->
              IF k \in D THEN dv[k] ELSE Str("v")] : dv \in [D -> DeviantValues]}
        : D \in {D \in SUBSET DrawnKeys : Cardinality(D) <= MaxDeviations}}

\* The values of live-mode-brokerage over the drawn environments: known
\* brokerages, a brokerage without requirements, a case variant and a prefix
DrawnBrokerages ==
    {Str("OandaBrokerage"), Str("InteractiveBrokersBrokerage"), Str("PaperTradingBrokerage"),
     Str("oandabrokerage"), Str("Oanda")}

\* The values of data-queue-handler over the drawn environments: known handlers,
\* a suffix of a known handler and a case variant
DrawnDataQueueHandlers ==
    {Str("OandaBrokerage"), Str(IQFeedDataQueueHandler), Str(InteractiveBrokersDataQueueHandler),
     Str("InteractiveBrokersBrokerage"), Str("oandabrokerage")}

DrawnLiveModes == {Absent, Bool(TRUE), Bool(FALSE), Num(0)}

\* The drawn environments: each of the three keys is absent or holds a drawn value
DrawnEnvironments ==
    {[k \in {key \in {"live-mode", "live-mode-brokerage", "data-queue-handler"} :
                 (CASE key = "live-mode" -> lm
                    [] key = "live-mode-brokerage" -> b
                    [] key = "data-queue-handler" -> d) # Absent} |->
          CASE k = "live-mode" -> lm
            [] k = "live-mode-brokerage" -> b
            [] k = "data-queue-handler" -> d] :
        lm \in DrawnLiveModes,
        b \in DrawnBrokerages \cup {Absent},
        d \in DrawnDataQueueHandlers \cup {Absent}}

\* The name of the environment the drawn configurations declare
DeclaredEnvironment == "lean-cli"

\* The values of --environment
EnvironmentOptions == {"lean-cli", "live-paper"}

\* The drawn configuration documents: no environments key, no environment at
\* all, or the declared environment
DrawnConfigs ==
    {[top |-> top, has_environments |-> FALSE, environments |-> <<>>] : top \in DrawnTops}
    \cup {[top |-> top, has_environments |-> TRUE, environments |-> <<>>] : top \in DrawnTops}
    \cup {[top |-> top, has_environments |-> TRUE,
           environments |-> [n \in {DeclaredEnvironment} |-> e]] :
             top \in DrawnTops, e \in DrawnEnvironments}

\* lean.constants.DEFAULT_ENGINE_IMAGE
DEFAULT_ENGINE_IMAGE == "quantconnect/lean:latest"

\* The images cli_config_manager.get_engine_image(image) resolves to
EngineImages == {DEFAULT_ENGINE_IMAGE, "custom/lean:latest"}

\* The configuration before it is loaded
EmptyConfig == [top |-> <<>>, has_environments |-> FALSE, environments |-> <<>>]

\* ------------------------------------------------------------------------
\* State
\* ------------------------------------------------------------------------

VARIABLES
    pc,                     \* the position of the live command
    stored_config,          \* the Lean configuration file
    lean_config,            \* lean_config of live()
    environment_name,       \* environment_name of live()
    error,                  \* the exception the invocation ended with, NoError if none
    passed,                 \* the checks of live() that have passed, in order
    tables_consulted,       \* whether _raise_for_missing_properties read the tables
    calls,                  \* the collaborators invoked after validation, in order
    update,                 \* the --update flag
    engine_image,           \* engine_image of live(), "" before it is resolved
    _environment_skeleton,  \* the module-level dict _environment_skeleton
    _cached_lean_config,    \* the module-level _cached_lean_config
    _cached_organizations,  \* the module-level _cached_organizations
    invocation,             \* the number of the invocation of the command in this process
    params,                 \* ctx.params: the parsed options of the invocation
    fetches,                \* the calls of api_client.organizations.get_all() in this invocation
    lookups,                \* the default lookups of this invocation, in order
    built,                  \* the arguments and the result of the build of this invocation
    steps,                  \* what LeanCommand.invoke and the wizard have done, in order
    wizard,                 \* the local variables of _configure_lean_config_interactively
    call,                   \* a call of a function of the program, with its arguments
    reply                   \* what that call returned or raised

\* Python's None
None == [t |-> "none"]

\* The two requirement tables as the module defines them
InitialTables ==
    [brokerage |-> _required_brokerage_properties,
     data_queue_handler |-> _required_data_queue_handler_properties]

SkeletonKeys ==
    {"live-mode", "setup-handler", "result-handler", "data-feed-handler", "real-time-handler"}

\* _environment_skeleton as the module defines it
InitialSkeleton ==
    [k \in SkeletonKeys |->
        CASE k = "live-mode" -> Bool(TRUE)
          [] k = "setup-handler" -> Str("QuantConnect.Lean.Engine.Setup.BrokerageSetupHandler")
          [] k = "result-handler" -> Str("QuantConnect.Lean.Engine.Results.LiveTradingResultHandler")
          [] k = "data-feed-handler" -> Str("QuantConnect.Lean.Engine.DataFeeds.LiveTradingDataFeed")
          [] k = "real-time-handler" ->
                 Str("QuantConnect.Lean.Engine.RealTime.LiveTradingRealTimeHandler")]

\* _cached_lean_config = None
NoCachedConfig == [loaded |-> FALSE, config |-> EmptyConfig, loaded_in |-> 0]

\* _cached_organizations = None
NoCachedOrganizations == [fetched |-> FALSE, list |-> <<>>]

\* No build has been made in this invocation
NotBuilt == [done |-> FALSE]

\* The wizard has not been entered
NoWizard == [entered |-> FALSE]

\* No function is being called on its own
NoCall == [fn |-> "none"]

\* A call that has not returned
NoReply == [returned |-> FALSE]

\* The options whose value the model follows, by the configuration key that
\* supplies their default
ModelledOptions == {"oanda-account-id", "job-organization-id"}

\* ctx.params of an invocation with --environment only
EnvironmentParams(environment) ==
    [environment |-> Str(environment), brokerage |-> None, data_feed |-> None,
     options |-> [o \in ModelledOptions |-> None]]

\* The state of the module and of the invocation that the checks of live()
\* and the launch leave alone
process_vars ==
    <<requirement_tables, _environment_skeleton, _cached_lean_config, _cached_organizations,
      invocation, params, fetches, lookups, built, steps, wizard, call, reply>>

vars == <<pc, stored_config, lean_config, environment_name, error, passed,
          tables_consulted, calls, update, engine_image, process_vars>>

\* The module as imported and an invocation that has not started
InitialProcess ==
    /\ lean_config = EmptyConfig
    /\ environment_name = ""
    /\ error = NoError
    /\ passed = <<>>
    /\ tables_consulted = FALSE
    /\ calls = <<>>
    /\ update = FALSE
    /\ engine_image = ""
    /\ requirement_tables = InitialTables
    /\ _environment_skeleton = InitialSkeleton
    /\ _cached_lean_config = NoCachedConfig
    /\ _cached_organizations = NoCachedOrganizations
    /\ invocation = 1
    /\ fetches = 0
    /\ lookups = <<>>
    /\ built = NotBuilt
    /\ steps = <<>>
    /\ wizard = NoWizard
    /\ call = NoCall
    /\ reply = NoReply

\* The body of live() is entered with --environment given, on a drawn configuration
Init ==
    /\ pc = "start"
    /\ stored_config \in DrawnConfigs
    /\ params \in {EnvironmentParams(environment) : environment \in EnvironmentOptions}
    /\ InitialProcess

\* lean_config_manager.get_complete_lean_config(environment_name, algorithm_file, None)
GetCompleteLeanConfig(stored) == stored

\* live(), --environment given: the cached globals are reset,
\* environment_name = environment and the configuration is loaded
LiveBegin ==
    /\ pc = "start"
    /\ params.environment # None
    /\ _cached_organizations' = NoCachedOrganizations
    /\ _cached_lean_config' = NoCachedConfig
    /\ environment_name' = params.environment.s
    /\ lean_config' = GetCompleteLeanConfig(stored_config)
    /\ steps' = Append(steps, [step |-> "live"])
    /\ pc' = "check_environment"
    /\ UNCHANGED <<stored_config, error, passed, tables_consulted, calls, update, engine_image,
                   requirement_tables, _environment_skeleton, invocation, params, fetches,
                   lookups, built, wizard, call, reply>>

\* A check that does not notice a configuration without an environments key
EnvironmentIsUndeclaredAmongDeclared(config, name) ==
    config.has_environments /\ name \notin DOMAIN config.environments

\* "environments" not in lean_config or environment_name not in lean_config["environments"]
EnvironmentIsUndeclared(config, name) ==
    ~config.has_environments \/ name \notin DOMAIN config.environments

\* live(): the check that the environment exists
CheckEnvironment ==
    /\ pc = "check_environment"
    /\ IF EnvironmentIsUndeclared(lean_config, environment_name)
       THEN /\ error' = EnvironmentUndeclared(environment_name)
            /\ pc' = "failed"
            /\ UNCHANGED passed
       ELSE /\ pc' = "check_live_mode"
            /\ passed' = Append(passed, "environment")
            /\ UNCHANGED error
    /\ UNCHANGED <<stored_config, lean_config, environment_name, tables_consulted, calls,
                   update, engine_image, process_vars>>

\* A live-mode check made after the check that live-mode-brokerage and
\* data-queue-handler are specified
LiveModeCheckAfterKeys(config, name) ==
    LET environment == config.environments[name]
        unspecified == FirstUnspecifiedKey(environment)
    IN  IF unspecified # <<>> THEN MissingRequiredKey(name, unspecified[1])
        ELSE IF "live-mode" \notin DOMAIN environment THEN KeyError("live-mode")
        ELSE IF ~PyTruthy(environment["live-mode"]) THEN NotLiveEnvironment(name)
        ELSE NoError

\* A live-mode lookup without the test of its value
LiveModeCheckKeyOnly(config, name) ==
    LET environment == config.environments[name]
    IN  IF "live-mode" \notin DOMAIN environment THEN KeyError("live-mode") ELSE NoError

\* The outcome of `if not lean_config["environments"][environment_name]["live-mode"]: raise`
LiveModeCheck(config, name) ==
    LET environment == config.environments[name]
    IN  IF "live-mode" \notin DOMAIN environment THEN KeyError("live-mode")
        ELSE IF ~PyTruthy(environment["live-mode"]) THEN NotLiveEnvironment(name)
        ELSE NoError

\* live(): the check that the environment is a live environment
CheckLiveMode ==
    /\ pc = "check_live_mode"
    /\ LET outcome == LiveModeCheck(lean_config, environment_name)
       IN  IF outcome # NoError
           THEN /\ error' = outcome
                /\ pc' = "failed"
                /\ UNCHANGED passed
           ELSE /\ pc' = "validate"
                /\ passed' = Append(passed, "live-mode")
                /\ UNCHANGED error
    /\ UNCHANGED <<stored_config, lean_config, environment_name, tables_consulted, calls,
                   update, engine_image, process_vars>>

\* A validator call that builds required_properties by extending the
\* brokerage's list in place (brokerage_properties += data_queue_handler_properties)
RaiseForMissingPropertiesExtendingTable ==
    /\ pc = "validate"
    /\ \E outcome \in _raise_for_missing_properties(lean_config, environment_name) :
          /\ tables_consulted' = outcome.consulted
          /\ IF outcome.error # NoError
             THEN /\ error' = outcome.error
                  /\ pc' = "failed"
                  /\ UNCHANGED passed
             ELSE /\ pc' = "pull_image"
                  /\ passed' = Append(passed, "properties")
                  /\ UNCHANGED error
    /\ LET environment == lean_config.environments[environment_name]
       IN  requirement_tables' =
               IF /\ FirstUnspecifiedKey(environment) = <<>>
                  /\ environment["live-mode-brokerage"].s \in DOMAIN requirement_tables.brokerage
               THEN [requirement_tables EXCEPT
                        !.brokerage[environment["live-mode-brokerage"].s] =
                            RequiredProperties(environment)]
               ELSE requirement_tables
    /\ UNCHANGED <<stored_config, lean_config, environment_name, calls, update, engine_image,
                   _environment_skeleton, _cached_lean_config, _cached_organizations,
                   invocation, params, fetches, lookups, built, steps, wizard, call, reply>>

\* live(): _raise_for_missing_properties(lean_config, environment_name, path)
RaiseForMissingProperties ==
    /\ pc = "validate"
    /\ \E outcome \in _raise_for_missing_properties(lean_config, environment_name) :
          /\ tables_consulted' = outcome.consulted
          /\ IF outcome.error # NoError
             THEN /\ error' = outcome.error
                  /\ pc' = "failed"
                  /\ UNCHANGED passed
             ELSE /\ pc' = "pull_image"
                  /\ passed' = Append(passed, "properties")
                  /\ UNCHANGED error
    /\ UNCHANGED <<stored_config, lean_config, environment_name, calls, update, engine_image,
                   process_vars>>

\* live(): engine_image = cli_config_manager.get_engine_image(image)
\*         if update or not supports_dotnet_5(image) or not image_installed(image):
\*             docker_manager.pull_image(engine_image)
PullImage ==
    /\ pc = "pull_image"
    /\ \E u \in BOOLEAN, image \in EngineImages,
          supports_dotnet_5 \in BOOLEAN, image_installed \in BOOLEAN :
          /\ update' = u
          /\ engine_image' = image
          /\ calls' = IF u \/ ~supports_dotnet_5 \/ ~image_installed
                      THEN Append(calls, [fn |-> "pull_image", engine_image |-> image])
                      ELSE calls
    /\ pc' = "start_iqconnect"
    /\ UNCHANGED <<stored_config, lean_config, environment_name, error, passed, tables_consulted,
                   process_vars>>

\* environment["data-queue-handler"] != "QuantConnect.ToolBox.IQFeed.IQFeedDataQueueHandler"
UsesIQFeed(config, name) ==
    PyEq(config.environments[name]["data-queue-handler"], Str(IQFeedDataQueueHandler))

\* live(): _start_iqconnect_if_necessary(lean_config, environment_name)
StartIQConnectIfNecessary ==
    /\ pc = "start_iqconnect"
    /\ calls' = IF UsesIQFeed(lean_config, environment_name)
                THEN Append(calls, [fn |-> "start_iqconnect",
                                    iqconnect |-> lean_config.top["iqfeed-iqconnect"],
                                    product |-> lean_config.top["iqfeed-productName"],
                                    version |-> lean_config.top["iqfeed-version"]])
                ELSE calls
    /\ pc' = "run_lean"
    /\ UNCHANGED <<stored_config, lean_config, environment_name, error, passed,
                   tables_consulted, update, engine_image, process_vars>>

\* lean_runner.run_lean raises: it has called docker_manager.run_image once,
\* and run_image has returned False
RunLeanRaises(run_image_succeeded) == ~run_image_succeeded

\* raise of lean_runner.run_lean, which live() does not catch
LaunchFailed ==
    [exc |-> "Exception", what |-> "LaunchFailed", env |-> "", keys |-> <<>>,
     path |-> FALSE, url |-> ""]

\* A launch whose image-outdated warning is issued in a finally clause
RunLeanWarningAlways ==
    /\ pc = "run_lean"
    /\ \E run_image_succeeded \in BOOLEAN :
          LET launched == Append(Append(calls,
                              [fn |-> "run_lean", lean_config |-> lean_config,
                               environment_name |-> environment_name,
                               engine_image |-> engine_image]),
                              [fn |-> "run_image", engine_image |-> engine_image,
                               succeeded |-> run_image_succeeded])
          IN  /\ calls' = IF engine_image = DEFAULT_ENGINE_IMAGE /\ ~update
                          THEN Append(launched, [fn |-> "warn_if_docker_image_outdated",
                                                 engine_image |-> engine_image])
                          ELSE launched
              /\ IF RunLeanRaises(run_image_succeeded)
                 THEN error' = LaunchFailed /\ pc' = "launch_failed"
                 ELSE pc' = "done" /\ UNCHANGED error
    /\ UNCHANGED <<stored_config, lean_config, environment_name, passed,
                   tables_consulted, update, engine_image, process_vars>>

\* live(): lean_runner.run_lean(lean_config, environment_name, algorithm_file, output,
\*                              engine_image, None)
\*         if str(engine_image) == DEFAULT_ENGINE_IMAGE and not update:
\*             update_manager.warn_if_docker_image_outdated(engine_image)
RunLean ==
    /\ pc = "run_lean"
    /\ \E run_image_succeeded \in BOOLEAN :
          LET launched == Append(Append(calls,
                              [fn |-> "run_lean", lean_config |-> lean_config,
                               environment_name |-> environment_name,
                               engine_image |-> engine_image]),
                              [fn |-> "run_image", engine_image |-> engine_image,
                               succeeded |-> run_image_succeeded])
          IN  IF RunLeanRaises(run_image_succeeded)
              THEN /\ calls' = launched
                   /\ error' = LaunchFailed
                   /\ pc' = "launch_failed"
              ELSE /\ calls' = IF engine_image = DEFAULT_ENGINE_IMAGE /\ ~update
                               THEN Append(launched, [fn |-> "warn_if_docker_image_outdated",
                                                      engine_image |-> engine_image])
                               ELSE launched
                   /\ pc' = "done"
                   /\ UNCHANGED error
    /\ UNCHANGED <<stored_config, lean_config, environment_name, passed,
                   tables_consulted, update, engine_image, process_vars>>

Next ==
    \/ LiveBegin
    \/ CheckEnvironment
    \/ CheckLiveMode
    \/ RaiseForMissingProperties
    \/ PullImage
    \/ StartIQConnectIfNecessary
    \/ RunLean

Spec == Init /\ [][Next]_vars

\* ------------------------------------------------------------------------
\* The command in a process: parsing, building, repeated invocations
\* ------------------------------------------------------------------------

\* The number of invocations of the command in one process
MaxInvocations == 2

\* get_name() of the local brokerages the model follows
PaperTradingName == "Paper Trading"

OandaName == "OANDA"

BloombergName == "Bloomberg"

IQFeedName == "IQFeed"

\* The values of --brokerage and of --data-feed the model follows
LocalBrokerages == {PaperTradingName, OandaName, BloombergName}

LocalDataFeeds == {OandaName, BloombergName, IQFeedName}

\* The options of ModelledOptions in the order live() declares them
OptionOrder == <<"oanda-account-id", "job-organization-id">>

\* An organization of the user, as api_client.organizations.get_all() returns it
OrganizationOne == [id |-> "org-1", name |-> "Organization One"]

\* What api_client.organizations.get_all() can return
OrganizationLists == {<<>>, <<OrganizationOne>>}

\* An environment named lean-cli that a configuration file already declares
PreviousEnvironment ==
    [k \in {"live-mode", "live-mode-brokerage", "data-queue-handler", "history-provider"} |->
        CASE k = "live-mode" -> Bool(TRUE)
          [] k = "live-mode-brokerage" -> Str("OandaBrokerage")
          [] k = "data-queue-handler" -> Str("OandaBrokerage")
          [] k = "history-provider" -> Str("BrokerageHistoryProvider")]

\* Another environment a configuration file declares
OtherEnvironmentName == "live-interactive"

OtherEnvironment ==
    [k \in {"live-mode", "live-mode-brokerage", "data-queue-handler"} |->
        CASE k = "live-mode" -> Bool(TRUE)
          [] k = "live-mode-brokerage" -> Str("InteractiveBrokersBrokerage")
          [] k = "data-queue-handler" -> Str(InteractiveBrokersDataQueueHandler)]

\* The top level of a configuration file: every property of the tables is
\* set, and oanda-account-id is absent, empty or one of two accounts
ProcessTops ==
    {[k \in ((AllProperties \cup {"job-organization-id"}) \ {"oanda-account-id"})
               \cup (IF account = Absent THEN {} ELSE {"oanda-account-id"}) |->
          CASE k = "oanda-account-id" -> account
            [] k = "job-organization-id" -> Str(OrganizationOne.id)
            [] OTHER -> Str("v")] :
        account \in {Absent, Str(""), Str("account-1"), Str("account-2")}}

\* The configuration files of the process: without an environments key, or
\* declaring lean-cli and another environment
ProcessConfigs ==
    {[top |-> top, has_environments |-> FALSE, environments |-> <<>>] : top \in ProcessTops}
    \cup {[top |-> top, has_environments |-> TRUE,
           environments |-> [n \in {DeclaredEnvironment, OtherEnvironmentName} |->
                                IF n = DeclaredEnvironment THEN PreviousEnvironment
                                ELSE OtherEnvironment]] : top \in ProcessTops}

\* ctx.params of a command line with --brokerage and --data-feed
BuildParams(brokerage, data_feed, account, organization) ==
    [environment |-> None, brokerage |-> Str(brokerage), data_feed |-> Str(data_feed),
     options |-> [o \in ModelledOptions |->
                     IF o = "oanda-account-id" THEN account ELSE organization]]

\* ctx.params of a command line with none of --environment, --brokerage, --data-feed
WizardParams ==
    [environment |-> None, brokerage |-> None, data_feed |-> None,
     options |-> [o \in ModelledOptions |-> None]]

\* ctx.params before the command line is parsed
NoParams == [parsed |-> FALSE]

\* The command lines: an option the chosen brokerage and data feed do not
\* read is not given
CommandLines ==
    {EnvironmentParams(DeclaredEnvironment), WizardParams,
     [EnvironmentParams(DeclaredEnvironment) EXCEPT !.brokerage = Str(OandaName)],
     [WizardParams EXCEPT !.brokerage = Str(OandaName)],
     [WizardParams EXCEPT !.data_feed = Str(IQFeedName)]}
    \cup {BuildParams(b, d, account, organization) :
            b \in LocalBrokerages, d \in LocalDataFeeds,
            account \in {None, Str(""), Str("account-9")},
            organization \in {None, Str(OrganizationOne.name), Str("Nobody")}}

\* lean_config_manager.get_lean_config()
GetLeanConfig(stored) == stored

\* The files Path(value).is_file() holds of
ExistingFiles == {"v"}

\* _get_default_value: `if _cached_lean_config is None: _cached_lean_config = ...`
LoadedLeanConfig(cache, stored, current) ==
    IF cache.loaded THEN cache
    ELSE [loaded |-> TRUE, config |-> GetLeanConfig(stored), loaded_in |-> current]

\* An exception raised where a value was to be returned
Raised(exc) == [t |-> "raise", exc |-> exc]

\* _get_default_value(key), once _cached_lean_config is loaded; Path(value) of
\* a value that is not a string raises TypeError
_get_default_value(cache, key) ==
    IF key \notin DOMAIN cache.config.top THEN None
    ELSE LET value == cache.config.top[key]
         IN  IF PyEq(value, Str("")) THEN None
             ELSE IF key = "iqfeed-iqconnect" /\ value.t # "str"
                  THEN Raised("TypeError")
             ELSE IF key = "iqfeed-iqconnect" /\ value.s \notin ExistingFiles
                  THEN None
             ELSE value

\* click parses the command line: an option that is not given takes
\* default=lambda: _get_default_value(key)
ParseOptions ==
    /\ pc = "idle"
    /\ \E cli \in CommandLines :
          LET defaulted == SelectSeq(OptionOrder, LAMBDA o : cli.options[o] = None)
              cache == IF defaulted = <<>> THEN _cached_lean_config
                       ELSE LoadedLeanConfig(_cached_lean_config, stored_config, invocation)
          IN  /\ params' = [cli EXCEPT !.options =
                                [o \in ModelledOptions |->
                                    IF cli.options[o] # None THEN cli.options[o]
                                    ELSE _get_default_value(cache, o)]]
              /\ lookups' = [i \in 1..Len(defaulted) |->
                                [key |-> defaulted[i],
                                 value |-> _get_default_value(cache, defaulted[i]),
                                 loaded_in |-> cache.loaded_in]]
              /\ _cached_lean_config' = cache
    /\ pc' = "invoke"
    /\ UNCHANGED <<stored_config, lean_config, environment_name, error, passed,
                   tables_consulted, calls, update, engine_image, requirement_tables,
                   _environment_skeleton, _cached_organizations, invocation, fetches, built,
                   steps, wizard, call, reply>>

\* raise MoreInfoError("The Lean CLI does not work with the Snap version of Docker, ...")
SnapDocker ==
    [exc |-> "MoreInfoError", what |-> "SnapDocker", env |-> "", keys |-> <<>>,
     path |-> FALSE, url |-> "https://docs.docker.com/engine/install/"]

\* raise MoreInfoError("This command requires a Lean configuration file, ...")
ConfigRequired ==
    [exc |-> "MoreInfoError", what |-> "ConfigRequired", env |-> "", keys |-> <<>>,
     path |-> FALSE,
     url |-> "https://www.lean.io/docs/lean-cli/user-guides/troubleshooting#02-Common-errors"]

\* An invoke that looks at Docker before it resolves the configuration root
InvokeDockerFirst ==
    /\ pc = "invoke"
    /\ \E root_resolves, docker_is_snap, needs_sudo \in BOOLEAN :
          IF docker_is_snap
          THEN /\ steps' = Append(steps, [step |-> "docker_checks"])
               /\ error' = SnapDocker
               /\ pc' = "aborted"
          ELSE IF needs_sudo
          THEN /\ steps' = steps \o <<[step |-> "docker_checks"], [step |-> "execlp"]>>
               /\ pc' = "replaced"
               /\ UNCHANGED error
          ELSE IF ~root_resolves
          THEN /\ steps' = steps \o <<[step |-> "docker_checks"],
                                      [step |-> "get_cli_root_directory"]>>
               /\ error' = ConfigRequired
               /\ pc' = "aborted"
          ELSE /\ steps' = steps \o <<[step |-> "docker_checks"],
                                      [step |-> "get_cli_root_directory"],
                                      [step |-> "show_announcements"]>>
               /\ pc' = "start"
               /\ UNCHANGED error
    /\ UNCHANGED <<stored_config, lean_config, environment_name, passed, tables_consulted,
                   calls, update, engine_image, requirement_tables, _environment_skeleton,
                   _cached_lean_config, _cached_organizations, invocation, params, fetches,
                   lookups, built, wizard, call, reply>>

\* LeanCommand.invoke up to super().invoke(ctx): the configuration root is
\* resolved, then Docker is looked at (Snap, sudo), then the announcements
\* are shown
Invoke ==
    /\ pc = "invoke"
    /\ \E root_resolves, docker_is_snap, needs_sudo \in BOOLEAN :
          IF ~root_resolves
          THEN /\ steps' = Append(steps, [step |-> "get_cli_root_directory"])
               /\ error' = ConfigRequired
               /\ pc' = "aborted"
          ELSE IF docker_is_snap
          THEN /\ steps' = steps \o <<[step |-> "get_cli_root_directory"],
                                      [step |-> "docker_checks"]>>
               /\ error' = SnapDocker
               /\ pc' = "aborted"
          ELSE IF needs_sudo
          THEN /\ steps' = steps \o <<[step |-> "get_cli_root_directory"],
                                      [step |-> "docker_checks"], [step |-> "execlp"]>>
               /\ pc' = "replaced"
               /\ UNCHANGED error
          ELSE /\ steps' = steps \o <<[step |-> "get_cli_root_directory"],
                                      [step |-> "docker_checks"],
                                      [step |-> "show_announcements"]>>
               /\ pc' = "start"
               /\ UNCHANGED error
    /\ UNCHANGED <<stored_config, lean_config, environment_name, passed, tables_consulted,
                   calls, update, engine_image, requirement_tables, _environment_skeleton,
                   _cached_lean_config, _cached_organizations, invocation, params, fetches,
                   lookups, built, wizard, call, reply>>

\* LeanCommand.invoke after super().invoke(ctx) has returned:
\* update_manager.warn_if_cli_outdated()
WarnIfCliOutdated ==
    /\ pc = "done"
    /\ steps' = Append(steps, [step |-> "warn_if_cli_outdated"])
    /\ pc' = "returned"
    /\ UNCHANGED <<stored_config, lean_config, environment_name, error, passed,
                   tables_consulted, calls, update, engine_image, requirement_tables,
                   _environment_skeleton, _cached_lean_config, _cached_organizations,
                   invocation, params, fetches, lookups, built, wizard, call, reply>>

\* The options ensure_options requires for a brokerage or a data feed
RequiredOptions(name) ==
    CASE name = OandaName -> <<"oanda_account_id", "oanda_access_token", "oanda_environment">>
      [] name = BloombergName ->
            <<"bloomberg_organization", "bloomberg_environment", "bloomberg_server_host",
              "bloomberg_server_port", "bloomberg_emsx_broker", "bloomberg_execution",
              "bloomberg_allow_modification">>
      [] name = IQFeedName ->
            <<"iqfeed_iqconnect", "iqfeed_username", "iqfeed_password",
              "iqfeed_product_name", "iqfeed_version">>
      [] OTHER -> <<>>

\* A selection check that asks for the brokerage only
RequiredSelectionBrokerageOnly == <<"brokerage">>

\* ensure_options(ctx, ["brokerage", "data_feed"])
RequiredSelection == <<"brokerage", "data_feed">>

\* The names of the parameters of live() that the model follows
ParamNames ==
    {"environment"} \cup Range(RequiredSelection)
        \cup UNION {Range(RequiredOptions(name)) : name \in LocalBrokerages \cup LocalDataFeeds}

\* ctx.params[param]; an option the model does not follow is given
ParamValue(parameters, param) ==
    CASE param = "environment" -> parameters.environment
      [] param = "brokerage" -> parameters.brokerage
      [] param = "data_feed" -> parameters.data_feed
      [] param = "oanda_account_id" -> parameters.options["oanda-account-id"]
      [] param = "bloomberg_organization" -> parameters.options["job-organization-id"]
      [] OTHER -> Str("v")

\* ctx.params as a mapping from the names of the parameters to their values
CtxParams(parameters) == [param \in ParamNames |-> ParamValue(parameters, param)]

\* The elements of `chosen` in the order of their first index in `parameters`
SortedByIndex(chosen, parameters) ==
    LET first == {i \in 1..Len(parameters) :
                     /\ parameters[i] \in chosen
                     /\ \A j \in 1..(i - 1) : parameters[j] # parameters[i]}
        Sorted[n \in 0..Len(parameters)] ==
            IF n = 0 THEN <<>>
            ELSE IF n \in first THEN Append(Sorted[n - 1], parameters[n])
            ELSE Sorted[n - 1]
    IN  Sorted[Len(parameters)]

\* A check that stops at the first listed parameter that is None
EnsureFirstMissingOnly(ctx_params, parameters) ==
    LET missing == SortedByIndex({param \in DOMAIN ctx_params :
                                     ctx_params[param] = None /\ param \in Range(parameters)},
                                 parameters)
    IN  IF missing = <<>> THEN <<>> ELSE <<missing[1]>>

\* ensure_parameters_exist(ctx, parameters): the parameters the RuntimeError
\* lists, in its order; none when the function returns
ensure_parameters_exist(ctx_params, parameters) ==
    SortedByIndex({param \in DOMAIN ctx_params :
                      ctx_params[param] = None /\ param \in Range(parameters)},
                  parameters)

\* ensure_options(ctx, required) of live()
MissingParameters(parameters, required) ==
    ensure_parameters_exist(CtxParams(parameters), required)

\* raise RuntimeError("You are missing the following parameter(s): ...")
MissingParametersError(missing) ==
    [exc |-> "RuntimeError", what |-> "MissingParameters", env |-> "", keys |-> missing,
     path |-> FALSE, url |-> ""]

\* raise RuntimeError(f"You are not a member of an organization with name or id
\* '{given_input}'")
OrganizationNotFound(given_input) ==
    [exc |-> "RuntimeError", what |-> "OrganizationNotFound", env |-> "",
     keys |-> <<given_input>>, path |-> FALSE, url |-> ""]

\* An organization lookup that asks the API each time and keeps nothing
GetOrganizationIdWithoutCache(cache, api_list, given_input) ==
    LET matching == SelectSeq(api_list, LAMBDA o : o.id = given_input \/ o.name = given_input)
    IN  [cache |-> cache,
         fetched |-> 1,
         id |-> IF matching = <<>> THEN None ELSE Str(matching[1].id)]

\* _get_organization_id(given_input) with _cached_organizations = cache, when
\* api_client.organizations.get_all() returns api_list: the cache afterwards,
\* the number of fetches made, and the id returned (None: RuntimeError)
_get_organization_id(cache, api_list, given_input) ==
    LET organizations == IF cache.fetched THEN cache
                         ELSE [fetched |-> TRUE, list |-> api_list]
        matching == SelectSeq(organizations.list,
                              LAMBDA o : o.id = given_input \/ o.name = given_input)
    IN  [cache |-> organizations,
         fetched |-> IF cache.fetched THEN 0 ELSE 1,
         id |-> IF matching = <<>> THEN None ELSE Str(matching[1].id)]

\* The identifier a brokerage's configure() writes to live-mode-brokerage
BrokerageId(name) ==
    CASE name = PaperTradingName -> "PaperTradingBrokerage"
      [] name = OandaName -> "OandaBrokerage"
      [] name = BloombergName -> "BloombergBrokerage"

\* The identifier a data feed's configure() writes to data-queue-handler
DataFeedId(name) ==
    CASE name = OandaName -> "OandaBrokerage"
      [] name = BloombergName -> "BloombergBrokerage"
      [] name = IQFeedName -> IQFeedDataQueueHandler

\* The entries a configurer's configure() writes to the top level of the
\* document, from the values it was constructed with
ConfigurerEntries(name, account, organization_id) ==
    CASE name = PaperTradingName -> [k \in {"paper-trading"} |-> Bool(TRUE)]
      [] name = OandaName ->
            [k \in {"oanda-account-id", "oanda-access-token", "oanda-environment"} |->
                IF k = "oanda-account-id" THEN account ELSE Str("v")]
      [] name = BloombergName ->
            [k \in {"job-organization-id", "bloomberg-environment", "bloomberg-server-host",
                    "bloomberg-server-port", "bloomberg-emsx-broker"} |->
                IF k = "job-organization-id" THEN organization_id ELSE Str("v")]
      [] name = IQFeedName ->
            [k \in {"iqfeed-iqconnect", "iqfeed-username", "iqfeed-password",
                    "iqfeed-productName", "iqfeed-version"} |-> Str("v")]

\* One branch of the if-chains of live(): ensure_options, then the configurer
\* is constructed, for Bloomberg around _get_organization_id(bloomberg_organization)
ConfigurerOf(name, id, parameters, cache, api_list) ==
    LET missing == MissingParameters(parameters, RequiredOptions(name))
        lookup == _get_organization_id(cache, api_list,
                                       parameters.options["job-organization-id"].s)
    IN  IF missing # <<>>
        THEN [error |-> MissingParametersError(missing), cache |-> cache, fetched |-> 0]
        ELSE IF name # BloombergName
        THEN [error |-> NoError, cache |-> cache, fetched |-> 0, name |-> name, id |-> id,
              entries |-> ConfigurerEntries(name, parameters.options["oanda-account-id"], None)]
        ELSE IF lookup.id = None
        THEN [error |-> OrganizationNotFound(parameters.options["job-organization-id"].s),
              cache |-> lookup.cache, fetched |-> lookup.fetched]
        ELSE [error |-> NoError, cache |-> lookup.cache, fetched |-> lookup.fetched,
              name |-> name, id |-> id,
              entries |-> ConfigurerEntries(name, None, lookup.id)]

\* dict.update: the entries of `entries` written over those of `dict`
Updated(dict, entries) ==
    [k \in DOMAIN dict \cup DOMAIN entries |-> IF k \in DOMAIN entries THEN entries[k] ELSE dict[k]]

\* A skeleton installed next to the environments the document declares, the
\* replaced environment kept under a backup name
InstallSkeletonKeepingBackup(config, name, skeleton) ==
    [config EXCEPT
        !.has_environments = TRUE,
        !.environments =
            IF config.has_environments /\ name \in DOMAIN config.environments
            THEN [n \in {name, "previous"} |->
                     IF n = name THEN skeleton ELSE config.environments[name]]
            ELSE [n \in {name} |-> skeleton]]

\* A skeleton written over the environment of that name, the sub-keys the
\* skeleton lacks kept
InstallSkeletonMerging(config, name, skeleton) ==
    [config EXCEPT
        !.has_environments = TRUE,
        !.environments =
            [n \in {name} |->
                IF config.has_environments /\ name \in DOMAIN config.environments
                THEN Updated(config.environments[name], skeleton)
                ELSE skeleton]]

\* A skeleton added to the environments the document declares
InstallSkeletonAmongDeclared(config, name, skeleton) ==
    [config EXCEPT
        !.has_environments = TRUE,
        !.environments =
            [n \in (IF config.has_environments THEN DOMAIN config.environments ELSE {})
                       \cup {name} |->
                IF n = name THEN skeleton ELSE config.environments[n]]]

\* An environment installed without the live-mode key of the skeleton
InstallSkeletonWithoutLiveMode(config, name, skeleton) ==
    [config EXCEPT
        !.has_environments = TRUE,
        !.environments =
            [n \in {name} |-> [k \in DOMAIN skeleton \ {"live-mode"} |-> skeleton[k]]]]

\* lean_config["environments"] = {environment_name: _environment_skeleton}
InstallSkeleton(config, name, skeleton) ==
    [config EXCEPT !.has_environments = TRUE,
                   !.environments = [n \in {name} |-> skeleton]]

\* configurer.configure(lean_config, environment_name): the entries at the
\* top level, the identifier under `key` of the environment
Configure(config, name, configurer, key) ==
    [config EXCEPT !.top = Updated(@, configurer.entries),
                   !.environments[name] = Updated(@, [k \in {key} |-> Str(configurer.id)])]

\* A build that does not call data_feed_configurer.configure
BuildEnvironmentWithoutDataFeed(base, name, skeleton, brokerage_configurer, data_feed_configurer) ==
    LET installed == InstallSkeleton(base, name, skeleton)
        with_brokerage == Configure(installed, name, brokerage_configurer, "live-mode-brokerage")
    IN  [config |-> with_brokerage, skeleton |-> with_brokerage.environments[name]]

\* The build of live() and of the wizard: the skeleton is installed and the
\* two configurers write to the document. The environment of the document is
\* the object _environment_skeleton itself, so what is written to the
\* environment is written to the skeleton
BuildEnvironment(base, name, skeleton, brokerage_configurer, data_feed_configurer) ==
    LET installed == InstallSkeleton(base, name, skeleton)
        with_brokerage == Configure(installed, name, brokerage_configurer, "live-mode-brokerage")
        with_data_feed == Configure(with_brokerage, name, data_feed_configurer, "data-queue-handler")
    IN  [config |-> with_data_feed, skeleton |-> with_data_feed.environments[name]]

\* What an invocation remembers of its build
BuildRecord(base, name, skeleton, brokerage_configurer, data_feed_configurer, interactive) ==
    [done |-> TRUE, base |-> base, name |-> name, skeleton |-> skeleton,
     brokerage |-> [name |-> brokerage_configurer.name, id |-> brokerage_configurer.id,
                    entries |-> brokerage_configurer.entries],
     data_feed |-> [name |-> data_feed_configurer.name, id |-> data_feed_configurer.id,
                    entries |-> data_feed_configurer.entries],
     interactive |-> interactive]

\* The branch live() takes: `if environment is not None: ... elif brokerage is
\* not None or data_feed is not None: ... else: ...`, with only --brokerage
\* looked at in the elif
LiveBranchIgnoringDataFeed(parameters) ==
    IF parameters.environment # None THEN "environment"
    ELSE IF parameters.brokerage # None THEN "build"
    ELSE "wizard"

\* The branch live() takes: `if environment is not None: ... elif brokerage is
\* not None or data_feed is not None: ... else: ...`
LiveBranch(parameters) ==
    IF parameters.environment # None THEN "environment"
    ELSE IF parameters.brokerage # None \/ parameters.data_feed # None THEN "build"
    ELSE "wizard"

\* brokerage_configurer = None, data_feed_configurer = None: no branch of the
\* if-chain has constructed a configurer
NoConfigurer(cache) == [error |-> NoError, cache |-> cache, fetched |-> 0, name |-> ""]

\* None.configure(lean_config, environment_name)
NoneHasNoConfigure ==
    [exc |-> "AttributeError", what |-> "AttributeError", env |-> "",
     keys |-> <<"configure">>, path |-> FALSE, url |-> ""]

\* live(), --brokerage or --data-feed given: the cached globals are reset, the
\* two configurers are constructed and the environment lean-cli is built
LiveBuild ==
    /\ pc = "start"
    /\ LiveBranch(params) = "build"
    /\ _cached_lean_config' = NoCachedConfig
    /\ steps' = Append(steps, [step |-> "live"])
    /\ \E api_list \in OrganizationLists :
          LET missing == MissingParameters(params, RequiredSelection)
              b == IF params.brokerage = None THEN NoConfigurer(NoCachedOrganizations)
                   ELSE ConfigurerOf(params.brokerage.s, BrokerageId(params.brokerage.s),
                                     params, NoCachedOrganizations, api_list)
              d == IF params.data_feed = None THEN NoConfigurer(b.cache)
                   ELSE ConfigurerOf(params.data_feed.s, DataFeedId(params.data_feed.s),
                                     params, b.cache, api_list)
              base == GetCompleteLeanConfig(stored_config)
              installed == InstallSkeleton(base, "lean-cli", _environment_skeleton)
              with_brokerage == Configure(installed, "lean-cli", b, "live-mode-brokerage")
              result == BuildEnvironment(base, "lean-cli", _environment_skeleton, b, d)
          IN  IF missing # <<>>
              THEN /\ error' = MissingParametersError(missing)
                   /\ pc' = "failed"
                   /\ _cached_organizations' = NoCachedOrganizations
                   /\ UNCHANGED <<lean_config, environment_name, _environment_skeleton,
                                  fetches, built>>
              ELSE IF b.error # NoError
              THEN /\ error' = b.error
                   /\ pc' = "failed"
                   /\ _cached_organizations' = b.cache
                   /\ fetches' = fetches + b.fetched
                   /\ UNCHANGED <<lean_config, environment_name, _environment_skeleton, built>>
              ELSE IF d.error # NoError
              THEN /\ error' = d.error
                   /\ pc' = "failed"
                   /\ _cached_organizations' = d.cache
                   /\ fetches' = fetches + b.fetched + d.fetched
                   /\ UNCHANGED <<lean_config, environment_name, _environment_skeleton, built>>
              ELSE IF b.name = ""
              THEN /\ environment_name' = "lean-cli"
                   /\ lean_config' = installed
                   /\ error' = NoneHasNoConfigure
                   /\ pc' = "failed"
                   /\ _cached_organizations' = d.cache
                   /\ fetches' = fetches + b.fetched + d.fetched
                   /\ UNCHANGED <<_environment_skeleton, built>>
              ELSE IF d.name = ""
              THEN /\ environment_name' = "lean-cli"
                   /\ lean_config' = with_brokerage
                   /\ _environment_skeleton' = with_brokerage.environments["lean-cli"]
                   /\ error' = NoneHasNoConfigure
                   /\ pc' = "failed"
                   /\ _cached_organizations' = d.cache
                   /\ fetches' = fetches + b.fetched + d.fetched
                   /\ UNCHANGED built
              ELSE /\ environment_name' = "lean-cli"
                   /\ lean_config' = result.config
                   /\ _environment_skeleton' = result.skeleton
                   /\ built' = BuildRecord(base, "lean-cli", _environment_skeleton, b, d, FALSE)
                   /\ _cached_organizations' = d.cache
                   /\ fetches' = fetches + b.fetched + d.fetched
                   /\ pc' = "check_environment"
                   /\ UNCHANGED error
    /\ UNCHANGED <<stored_config, passed, tables_consulted, calls, update, engine_image,
                   requirement_tables, invocation, params, lookups, wizard, call, reply>>

\* local_brokerage_data_feeds: the data feeds that go with a brokerage
LocalBrokerageDataFeeds ==
    [b \in LocalBrokerages |-> IF b = PaperTradingName THEN LocalDataFeeds ELSE {b}]

\* The data feeds the wizard offers whatever the brokerage is
OfferedDataFeedsOfAll(brokerage) == LocalDataFeeds

\* [... for data_feed in local_brokerage_data_feeds[brokerage]]
OfferedDataFeeds(brokerage) == LocalBrokerageDataFeeds[brokerage]

\* brokerage.build(lean_config, logger): the configurer made of the prompted values
PromptedConfigurer(name, id) ==
    [name |-> name, id |-> id,
     entries |-> ConfigurerEntries(name, Str("account-7"), Str(OrganizationOne.id))]

\* live(), none of --environment, --brokerage, --data-feed given: the cached
\* globals are reset, the configuration is loaded and
\* _configure_lean_config_interactively installs the skeleton as lean-cli
LiveWizard ==
    /\ pc = "start"
    /\ LiveBranch(params) = "wizard"
    /\ _cached_organizations' = NoCachedOrganizations
    /\ _cached_lean_config' = NoCachedConfig
    /\ environment_name' = "lean-cli"
    /\ lean_config' = InstallSkeleton(GetCompleteLeanConfig(stored_config), "lean-cli",
                                      _environment_skeleton)
    /\ wizard' = [entered |-> TRUE, skeleton |-> _environment_skeleton,
                  brokerage |-> "", data_feed |-> ""]
    /\ steps' = steps \o <<[step |-> "live"], [step |-> "install_skeleton"]>>
    /\ pc' = "select_brokerage"
    /\ UNCHANGED <<stored_config, error, passed, tables_consulted, calls, update, engine_image,
                   requirement_tables, _environment_skeleton, invocation, params, fetches,
                   lookups, built, call, reply>>

\* brokerage = logger.prompt_list("Select a brokerage", [... for brokerage in
\* all_local_brokerages])
SelectBrokerage ==
    /\ pc = "select_brokerage"
    /\ \E brokerage \in LocalBrokerages :
          /\ wizard' = [wizard EXCEPT !.brokerage = brokerage]
          /\ steps' = Append(steps, [step |-> "prompt_list", text |-> "Select a brokerage",
                                     offered |-> LocalBrokerages, chosen |-> brokerage])
    /\ pc' = "configure_brokerage"
    /\ UNCHANGED <<stored_config, lean_config, environment_name, error, passed,
                   tables_consulted, calls, update, engine_image, requirement_tables,
                   _environment_skeleton, _cached_lean_config, _cached_organizations,
                   invocation, params, fetches, lookups, built, call, reply>>

\* brokerage.build(lean_config, logger).configure(lean_config, environment_name):
\* the environment written to is the object _environment_skeleton
ConfigureBrokerage ==
    /\ pc = "configure_brokerage"
    /\ LET configured == Configure(lean_config, environment_name,
                                   PromptedConfigurer(wizard.brokerage,
                                                      BrokerageId(wizard.brokerage)),
                                   "live-mode-brokerage")
       IN  /\ lean_config' = configured
           /\ _environment_skeleton' = configured.environments[environment_name]
    /\ steps' = Append(steps, [step |-> "build_and_configure", what |-> "brokerage",
                               name |-> wizard.brokerage])
    /\ pc' = "select_data_feed"
    /\ UNCHANGED <<stored_config, environment_name, error, passed, tables_consulted, calls,
                   update, engine_image, requirement_tables, _cached_lean_config,
                   _cached_organizations, invocation, params, fetches, lookups, built,
                   wizard, call, reply>>

\* data_feed = logger.prompt_list("Select a data feed", [... for data_feed in
\* local_brokerage_data_feeds[brokerage]])
SelectDataFeed ==
    /\ pc = "select_data_feed"
    /\ \E data_feed \in OfferedDataFeeds(wizard.brokerage) :
          /\ wizard' = [wizard EXCEPT !.data_feed = data_feed]
          /\ steps' = Append(steps, [step |-> "prompt_list", text |-> "Select a data feed",
                                     offered |-> OfferedDataFeeds(wizard.brokerage),
                                     chosen |-> data_feed])
    /\ pc' = "configure_data_feed"
    /\ UNCHANGED <<stored_config, lean_config, environment_name, error, passed,
                   tables_consulted, calls, update, engine_image, requirement_tables,
                   _environment_skeleton, _cached_lean_config, _cached_organizations,
                   invocation, params, fetches, lookups, built, call, reply>>

\* data_feed.build(lean_config, logger).configure(lean_config, environment_name);
\* the wizard returns to live()
ConfigureDataFeed ==
    /\ pc = "configure_data_feed"
    /\ LET b == PromptedConfigurer(wizard.brokerage, BrokerageId(wizard.brokerage))
           d == PromptedConfigurer(wizard.data_feed, DataFeedId(wizard.data_feed))
           configured == Configure(lean_config, environment_name, d, "data-queue-handler")
       IN  /\ lean_config' = configured
           /\ _environment_skeleton' = configured.environments[environment_name]
           /\ built' = BuildRecord(GetCompleteLeanConfig(stored_config), environment_name,
                                   wizard.skeleton, b, d, TRUE)
    /\ steps' = Append(steps, [step |-> "build_and_configure", what |-> "data_feed",
                               name |-> wizard.data_feed])
    /\ pc' = "check_environment"
    /\ UNCHANGED <<stored_config, environment_name, error, passed, tables_consulted, calls,
                   update, engine_image, requirement_tables, _cached_lean_config,
                   _cached_organizations, invocation, params, fetches, lookups, wizard,
                   call, reply>>

\* The command is invoked again in the same process, after the configuration
\* file may have been edited: the module-level state is kept
NextInvocation ==
    /\ pc \in {"returned", "failed", "aborted", "launch_failed"}
    /\ invocation < MaxInvocations
    /\ invocation' = invocation + 1
    /\ stored_config' \in ProcessConfigs
    /\ pc' = "idle"
    /\ params' = NoParams
    /\ lean_config' = EmptyConfig
    /\ environment_name' = ""
    /\ error' = NoError
    /\ passed' = <<>>
    /\ tables_consulted' = FALSE
    /\ calls' = <<>>
    /\ update' = FALSE
    /\ engine_image' = ""
    /\ fetches' = 0
    /\ lookups' = <<>>
    /\ built' = NotBuilt
    /\ steps' = <<>>
    /\ wizard' = NoWizard
    /\ UNCHANGED <<requirement_tables, _environment_skeleton, _cached_lean_config,
                   _cached_organizations, call, reply>>

\* The process before its first invocation parses its command line
ProcessInit ==
    /\ pc = "idle"
    /\ stored_config \in ProcessConfigs
    /\ params = NoParams
    /\ InitialProcess

ProcessNext ==
    \/ ParseOptions
    \/ Invoke
    \/ LiveBegin
    \/ LiveBuild
    \/ LiveWizard
    \/ SelectBrokerage
    \/ ConfigureBrokerage
    \/ SelectDataFeed
    \/ ConfigureDataFeed
    \/ CheckEnvironment
    \/ CheckLiveMode
    \/ RaiseForMissingProperties
    \/ PullImage
    \/ StartIQConnectIfNecessary
    \/ RunLean
    \/ WarnIfCliOutdated
    \/ NextInvocation

ProcessSpec == ProcessInit /\ [][ProcessNext]_vars

\* ------------------------------------------------------------------------
\* The functions of the command line on their own
\* ------------------------------------------------------------------------

\* The longest list of parameter names handed to ensure_parameters_exist
MaxParameters == 3

\* The names of the parameters in ctx.params, and a name that is not a parameter
ComponentParamNames == {"brokerage", "data_feed", "oanda_account_id"}

ListedNames == ComponentParamNames \cup {"iqfeed_version"}

\* The values of a parameter
ComponentParamValues == {None, Str(""), Str("v"), Bool(FALSE)}

\* ctx.params: the parameters the command exposes, with their values
ComponentCtxParams ==
    UNION {[names -> ComponentParamValues] : names \in SUBSET ComponentParamNames}

\* The lists of names handed to ensure_parameters_exist, repetitions included
ParameterLists == UNION {[1..n -> ListedNames] : n \in 0..MaxParameters}

\* The keys whose default is looked up, one of them iqfeed-iqconnect
DefaultKeys == {"oanda-account-id", "iqfeed-iqconnect"}

\* The values a key of the configuration file can hold ("v" is an existing
\* file, "w" is not), or its absence
DefaultValues ==
    {Absent, Str(""), Str("v"), Str("w"), Bool(FALSE), Bool(TRUE), Num(0), Num(1)}

\* A configuration file with at most the one key
OneKeyConfig(key, value) ==
    [top |-> [k \in (IF value = Absent THEN {} ELSE {key}) |-> value],
     has_environments |-> FALSE, environments |-> <<>>]

\* What --lean-config can point at: a path path_manager rejects, nothing, a
\* regular file, a directory, or something that exists and is neither (a
\* device, a socket, a named pipe)
PathKinds == {"invalid", "nothing", "file", "directory", "other"}

\* The HTTP status codes the API answers with
Statuses == {200, 404, 500, 502}

\* The calls that are followed on their own
ComponentCalls ==
    {[fn |-> "_get_default_value", key |-> key, config |-> OneKeyConfig(key, value)] :
        key \in DefaultKeys, value \in DefaultValues}
    \cup {[fn |-> "ensure_parameters_exist", ctx_params |-> ctx_params,
           parameters |-> parameters] :
            ctx_params \in ComponentCtxParams, parameters \in ParameterLists}
    \cup {[fn |-> "--lean-config", given |-> TRUE, kind |-> kind] : kind \in PathKinds}
    \cup {[fn |-> "--lean-config", given |-> FALSE, kind |-> "nothing"]}
    \cup {[fn |-> "api_request", method |-> method] : method \in {"get", "post"}}

\* _get_default_value(key) with the configuration not cached yet
GetDefaultValue ==
    /\ pc = "component"
    /\ call.fn = "_get_default_value"
    /\ LET cache == LoadedLeanConfig(NoCachedConfig, call.config, invocation)
       IN  reply' = [returned |-> TRUE, value |-> _get_default_value(cache, call.key)]
    /\ pc' = "component_done"
    /\ UNCHANGED <<stored_config, lean_config, environment_name, error, passed,
                   tables_consulted, calls, update, engine_image, requirement_tables,
                   _environment_skeleton, _cached_lean_config, _cached_organizations,
                   invocation, params, fetches, lookups, built, steps, wizard, call>>

\* ensure_parameters_exist(ctx, parameters): returns, or raises the
\* RuntimeError that lists the missing parameters
EnsureParametersExist ==
    /\ pc = "component"
    /\ call.fn = "ensure_parameters_exist"
    /\ LET missing == ensure_parameters_exist(call.ctx_params, call.parameters)
       IN  reply' = [returned |-> TRUE, ctx_params |-> call.ctx_params,
                     error |-> IF missing = <<>> THEN NoError
                               ELSE MissingParametersError(missing)]
    /\ pc' = "component_done"
    /\ UNCHANGED <<stored_config, lean_config, environment_name, error, passed,
                   tables_consulted, calls, update, engine_image, requirement_tables,
                   _environment_skeleton, _cached_lean_config, _cached_organizations,
                   invocation, params, fetches, lookups, built, steps, wizard, call>>

\* self.fail(...): click.BadParameter with the message of the failed test
BadParameter(message) ==
    [exc |-> "BadParameter", what |-> message, env |-> "", keys |-> <<>>, path |-> TRUE,
     url |-> ""]

\* A conversion that lets a directory through
ConvertAcceptingDirectories(kind, exists, file_okay, dir_okay) ==
    IF kind = "invalid" THEN BadParameter("is not a valid path")
    ELSE IF exists /\ kind = "nothing" THEN BadParameter("does not exist")
    ELSE IF ~file_okay /\ kind = "file" THEN BadParameter("is a file")
    ELSE NoError

\* PathParameter.convert(value, param, ctx): the failure, NoError when the
\* path is returned; is_file() holds of a regular file and is_dir() of a
\* directory only
convert(kind, exists, file_okay, dir_okay) ==
    IF kind = "invalid" THEN BadParameter("is not a valid path")
    ELSE IF exists /\ kind = "nothing" THEN BadParameter("does not exist")
    ELSE IF ~file_okay /\ kind = "file" THEN BadParameter("is a file")
    ELSE IF ~dir_okay /\ kind = "directory" THEN BadParameter("is a directory")
    ELSE NoError

\* click converts the value of --lean-config with
\* PathParameter(exists=True, file_okay=True, dir_okay=False); an option that
\* is not given has the value None and is not converted
ConvertLeanConfig ==
    /\ pc = "component"
    /\ call.fn = "--lean-config"
    /\ LET failure == IF call.given THEN convert(call.kind, TRUE, TRUE, FALSE) ELSE NoError
       IN  /\ reply' = [returned |-> failure # NoError, error |-> failure,
                        value |-> IF call.given /\ failure = NoError THEN Str(call.kind)
                                  ELSE None]
           /\ steps' = IF call.given THEN Append(steps, [step |-> "convert"]) ELSE steps
           /\ pc' = IF failure # NoError THEN "component_done" ELSE "converted"
    /\ UNCHANGED <<stored_config, lean_config, environment_name, error, passed,
                   tables_consulted, calls, update, engine_image, requirement_tables,
                   _environment_skeleton, _cached_lean_config, _cached_organizations,
                   invocation, params, fetches, lookups, built, wizard, call>>

\* LeanCommand._parse_config_option(ctx, param, value), the callback of --lean-config
ParseConfigOption ==
    /\ pc = "converted"
    /\ steps' = IF reply.value # None
                THEN Append(steps, [step |-> "set_default_lean_config_path",
                                    path |-> reply.value])
                ELSE steps
    /\ reply' = [reply EXCEPT !.returned = TRUE]
    /\ pc' = "component_done"
    /\ UNCHANGED <<stored_config, lean_config, environment_name, error, passed,
                   tables_consulted, calls, update, engine_image, requirement_tables,
                   _environment_skeleton, _cached_lean_config, _cached_organizations,
                   invocation, params, fetches, lookups, built, wizard, call>>

\* The requests sent so far
Requests == SelectSeq(steps, LAMBDA s : s.step = "request")

\* A client that gives up on the first 5xx response
NeverRetry(status, sent) == FALSE

\* A response with a 5xx status is followed by another request when it
\* answers the first request of the call
ShouldRetry(status, sent) == 500 <= status /\ status < 600 /\ sent = 1

\* What the call ends with on a response that is not retried
ApiOutcome(status, success) ==
    IF status = 500 THEN "AuthenticationError"
    ELSE IF status < 200 \/ status >= 300 THEN "RequestFailedError"
    ELSE IF success THEN "data"
    ELSE "RequestFailedError"

\* APIClient.get / APIClient.post: one request is sent and answered
ApiRequest ==
    /\ pc = "component"
    /\ call.fn = "api_request"
    /\ \E status \in Statuses, success \in BOOLEAN :
          /\ status # 200 => ~success
          /\ steps' = Append(steps, [step |-> "request", method |-> call.method,
                                     status |-> status])
          /\ IF ShouldRetry(status, Len(Requests) + 1)
             THEN UNCHANGED <<pc, reply>>
             ELSE /\ reply' = [returned |-> TRUE, result |-> ApiOutcome(status, success)]
                  /\ pc' = "component_done"
    /\ UNCHANGED <<stored_config, lean_config, environment_name, error, passed,
                   tables_consulted, calls, update, engine_image, requirement_tables,
                   _environment_skeleton, _cached_lean_config, _cached_organizations,
                   invocation, params, fetches, lookups, built, wizard, call>>

\* One call of one of the functions, with drawn arguments
ComponentInit ==
    /\ pc = "component"
    /\ call \in ComponentCalls
    /\ reply = NoReply
    /\ stored_config = EmptyConfig
    /\ params = NoParams
    /\ lean_config = EmptyConfig
    /\ environment_name = ""
    /\ error = NoError
    /\ passed = <<>>
    /\ tables_consulted = FALSE
    /\ calls = <<>>
    /\ update = FALSE
    /\ engine_image = ""
    /\ requirement_tables = InitialTables
    /\ _environment_skeleton = InitialSkeleton
    /\ _cached_lean_config = NoCachedConfig
    /\ _cached_organizations = NoCachedOrganizations
    /\ invocation = 1
    /\ fetches = 0
    /\ lookups = <<>>
    /\ built = NotBuilt
    /\ steps = <<>>
    /\ wizard = NoWizard

ComponentNext ==
    \/ GetDefaultValue
    \/ EnsureParametersExist
    \/ ConvertLeanConfig
    \/ ParseConfigOption
    \/ ApiRequest

ComponentSpec == ComponentInit /\ [][ComponentNext]_vars

\* ------------------------------------------------------------------------
\* Vocabulary of the properties
\* ------------------------------------------------------------------------

\* The selected environment is declared by the loaded configuration
Declared == lean_config.has_environments /\ environment_name \in DOMAIN lean_config.environments

\* The selected environment (only used where Declared holds)
SelectedEnvironment == lean_config.environments[environment_name]

\* Both live-mode-brokerage and data-queue-handler are set in the selected environment
BothSet ==
    /\ Declared
    /\ "live-mode-brokerage" \in DOMAIN SelectedEnvironment
    /\ "data-queue-handler" \in DOMAIN SelectedEnvironment

\* The check that the environment exists has been made
EnvironmentChecked == pc \notin {"start", "check_environment"}

\* The live-mode check has been made
LiveModeChecked == EnvironmentChecked /\ Len(passed) >= 1 /\ pc # "check_live_mode"

\* _raise_for_missing_properties has been called and has raised or returned
ValidatorRan == LiveModeChecked /\ Len(passed) >= 2 /\ pc # "validate"

\* The properties the tables require of an identifier, read off the tables by
\* exact match
RequiredOf(table, id) == IF id \in DOMAIN table THEN Range(table[id]) ELSE {}

\* required(brokerage) \cup required(handler) of an environment with both keys set
RequiredSet(environment) ==
    RequiredOf(_required_brokerage_properties, environment["live-mode-brokerage"].s)
        \cup RequiredOf(_required_data_queue_handler_properties, environment["data-queue-handler"].s)

\* {k \in required : k is not a top-level key of the configuration or its value
\* is the empty string}
ExpectedMissing(config, environment) ==
    {k \in RequiredSet(environment) : k \notin DOMAIN config.top \/ config.top[k] = Str("")}

\* The set of missing properties the validator reported
ReportedMissing ==
    IF error.what = "MissingRequiredProperties" THEN Range(error.keys) ELSE {}

\* ------------------------------------------------------------------------
\* C1
\* ------------------------------------------------------------------------

\* C1: whenever the validator has run on a live environment whose
\* live-mode-brokerage and data-queue-handler are set, the set of missing
\* properties it reports is exactly the set of required keys that are not a
\* top-level key of the configuration or hold the empty string; it raises the
\* missing-properties error exactly when that set is non-empty, and no reported
\* key holds false or 0.
C1_MissingSetIsExact ==
    (ValidatorRan /\ BothSet) =>
        /\ ReportedMissing = ExpectedMissing(lean_config, SelectedEnvironment)
        /\ (error.what = "MissingRequiredProperties")
               <=> (ExpectedMissing(lean_config, SelectedEnvironment) # {})
        /\ \A k \in ReportedMissing :
               k \in DOMAIN lean_config.top =>
                   lean_config.top[k] \notin {Bool(FALSE), Num(0)}

\* C1 witness (Scenario B): OandaBrokerage/OandaBrokerage with only
\* oanda-account-id set reports exactly oanda-access-token and oanda-environment
C1_Witness ==
    /\ ValidatorRan /\ BothSet
    /\ SelectedEnvironment["live-mode-brokerage"] = Str("OandaBrokerage")
    /\ SelectedEnvironment["data-queue-handler"] = Str("OandaBrokerage")
    /\ "oanda-account-id" \in DOMAIN lean_config.top
    /\ lean_config.top["oanda-account-id"] = Str("v")
    /\ "oanda-access-token" \notin DOMAIN lean_config.top
    /\ "oanda-environment" \notin DOMAIN lean_config.top
    /\ error.what = "MissingRequiredProperties"
    /\ ReportedMissing = {"oanda-access-token", "oanda-environment"}

\* ------------------------------------------------------------------------
\* C2
\* ------------------------------------------------------------------------

\* C2: whenever the validator has run on an environment with more than one
\* required property missing, it has failed with the one missing-properties
\* error, and the lines of its message enumerate every missing key exactly
\* once, also a key that both the brokerage and the data-queue-handler require.
C2_EveryMissingKeyOnce ==
    (ValidatorRan /\ BothSet
        /\ Cardinality(ExpectedMissing(lean_config, SelectedEnvironment)) > 1) =>
        /\ pc = "failed"
        /\ error.what = "MissingRequiredProperties"
        /\ Len(error.keys) = Cardinality(ExpectedMissing(lean_config, SelectedEnvironment))
        /\ \A k \in ExpectedMissing(lean_config, SelectedEnvironment) :
               Cardinality({i \in 1..Len(error.keys) : error.keys[i] = k}) = 1

\* C2 witness: two properties that both the OandaBrokerage brokerage and the
\* OandaBrokerage data-queue-handler require are missing, and the message has
\* two lines
C2_Witness ==
    /\ ValidatorRan /\ BothSet
    /\ SelectedEnvironment["live-mode-brokerage"] = Str("OandaBrokerage")
    /\ SelectedEnvironment["data-queue-handler"] = Str("OandaBrokerage")
    /\ Cardinality(ExpectedMissing(lean_config, SelectedEnvironment)) = 2
    /\ error.what = "MissingRequiredProperties"
    /\ Len(error.keys) = 2
    /\ error.keys[1] # error.keys[2]

\* ------------------------------------------------------------------------
\* C3
\* ------------------------------------------------------------------------

\* The errors of the three checks that precede the launch
CheckErrors ==
    {"EnvironmentUndeclared", "NotLiveEnvironment", "KeyError",
     "MissingRequiredKey", "MissingRequiredProperties"}

\* The launcher has been invoked
Launched == \E i \in 1..Len(calls) : calls[i].fn = "run_lean"

\* C3: the image pull, the IQConnect start and the launcher are invoked only
\* after the environment-exists check, the live-mode check and the validation
\* have passed, in that order, on a declared live environment; after a failed
\* check none of them has been invoked; and the configuration handed to the
\* launcher holds a non-empty value for every key required by the environment's
\* brokerage and data-queue-handler.
C3_LaunchOnlyAfterChecks ==
    /\ calls # <<>> =>
          /\ passed = <<"environment", "live-mode", "properties">>
          /\ BothSet
          /\ "live-mode" \in DOMAIN SelectedEnvironment
          /\ PyTruthy(SelectedEnvironment["live-mode"])
    /\ error.what \in CheckErrors => calls = <<>>
    /\ pc \in {"pull_image", "start_iqconnect", "run_lean", "done"} => error = NoError
    /\ \A i \in 1..Len(calls) :
          calls[i].fn = "run_lean" =>
              LET config == calls[i].lean_config
                  environment == config.environments[calls[i].environment_name]
              IN  /\ config = lean_config
                  /\ \A k \in RequiredSet(environment) :
                         k \in DOMAIN config.top /\ config.top[k] # Str("")

\* C3 witness: the launcher has been invoked for an OandaBrokerage environment
\* with the IQFeed data-queue-handler, after the image pull and the IQConnect start
C3_Witness ==
    /\ pc = "done"
    /\ Launched
    /\ SelectedEnvironment["live-mode-brokerage"] = Str("OandaBrokerage")
    /\ SelectedEnvironment["data-queue-handler"] = Str(IQFeedDataQueueHandler)
    /\ Len(calls) >= 3
    /\ calls[1].fn = "pull_image"
    /\ calls[2].fn = "start_iqconnect"
    /\ calls[3].fn = "run_lean"

\* ------------------------------------------------------------------------
\* C4
\* ------------------------------------------------------------------------

\* C4 as stated: when both live-mode-brokerage and data-queue-handler are
\* absent, the failure of the validator reports both keys and names the
\* environment.
C4_BothAbsentReportsBoth ==
    (ValidatorRan /\ Declared
        /\ "live-mode-brokerage" \notin DOMAIN SelectedEnvironment
        /\ "data-queue-handler" \notin DOMAIN SelectedEnvironment) =>
        /\ error.what = "MissingRequiredKey"
        /\ Range(error.keys) = {"live-mode-brokerage", "data-queue-handler"}
        /\ error.env = environment_name

\* C4 amended: the validator checks live-mode-brokerage and then
\* data-queue-handler and fails at the first of them that is absent: the
\* failure reports that one key only (live-mode-brokerage when both are
\* absent) and names the environment.
C4_FirstAbsentKeyReported ==
    (ValidatorRan /\ Declared /\ ~BothSet) =>
        /\ pc = "failed"
        /\ error.what = "MissingRequiredKey"
        /\ error.env = environment_name
        /\ error.keys =
               IF "live-mode-brokerage" \notin DOMAIN SelectedEnvironment
               THEN <<"live-mode-brokerage">>
               ELSE <<"data-queue-handler">>

\* C4 witness: both keys are absent and the failure reports live-mode-brokerage
C4_Witness ==
    /\ ValidatorRan /\ Declared
    /\ "live-mode-brokerage" \notin DOMAIN SelectedEnvironment
    /\ "data-queue-handler" \notin DOMAIN SelectedEnvironment
    /\ error = MissingRequiredKey("lean-cli", "live-mode-brokerage")

\* ------------------------------------------------------------------------
\* C5
\* ------------------------------------------------------------------------

\* The selected environment lacks data-queue-handler and its live-mode is
\* present and falsy
LacksHandlerAndNotLive ==
    /\ Declared
    /\ "data-queue-handler" \notin DOMAIN SelectedEnvironment
    /\ "live-mode" \in DOMAIN SelectedEnvironment
    /\ ~PyTruthy(SelectedEnvironment["live-mode"])

\* C5 as stated: the check that live-mode-brokerage and data-queue-handler are
\* declared precedes the live-mode check, so an environment that lacks
\* data-queue-handler and has live-mode false fails with MissingRequiredKey.
C5_KeysCheckedBeforeLiveMode ==
    (pc = "failed" /\ LacksHandlerAndNotLive) => error.what = "MissingRequiredKey"

\* C5 amended: the live-mode check precedes the check that live-mode-brokerage
\* and data-queue-handler are declared: a missing-key failure is raised only
\* after the live-mode check has passed, and an environment that lacks
\* data-queue-handler and has live-mode false fails with NotLiveEnvironment.
C5_LiveModeCheckedBeforeKeys ==
    /\ error.what = "MissingRequiredKey" => passed = <<"environment", "live-mode">>
    /\ (LiveModeChecked /\ LacksHandlerAndNotLive) =>
           /\ pc = "failed"
           /\ error = NotLiveEnvironment(environment_name)

\* C5 witness: an environment with live-mode false and no data-queue-handler
\* has failed with NotLiveEnvironment
C5_Witness ==
    /\ pc = "failed"
    /\ LacksHandlerAndNotLive
    /\ SelectedEnvironment["live-mode"] = Bool(FALSE)
    /\ "live-mode-brokerage" \in DOMAIN SelectedEnvironment
    /\ error.what = "NotLiveEnvironment"

\* ------------------------------------------------------------------------
\* C6
\* ------------------------------------------------------------------------

\* C6: once the environment-exists check has been made on a configuration that
\* has no environments key or whose environments do not contain the named
\* environment, the command has failed with EnvironmentUndeclared naming the
\* environment, and no other check has been made: no check has passed, the
\* requirement tables have not been read and no collaborator has been invoked.
C6_UndeclaredEnvironmentFailsFirst ==
    (EnvironmentChecked
        /\ (~lean_config.has_environments
               \/ environment_name \notin DOMAIN lean_config.environments)) =>
        /\ pc = "failed"
        /\ error.what = "EnvironmentUndeclared"
        /\ error.env = environment_name
        /\ passed = <<>>
        /\ ~tables_consulted
        /\ calls = <<>>

\* C6 witness: a configuration without an environments key has failed with
\* EnvironmentUndeclared
C6_Witness ==
    /\ pc = "failed"
    /\ ~lean_config.has_environments
    /\ error = EnvironmentUndeclared(environment_name)
    /\ environment_name = "lean-cli"

\* ------------------------------------------------------------------------
\* C7
\* ------------------------------------------------------------------------

\* C7: once the live-mode check has been made on a declared environment whose
\* live-mode is false, the command has failed with NotLiveEnvironment, whatever
\* the configuration holds for the properties its brokerage and
\* data-queue-handler require.
C7_LiveModeFalseIsRejected ==
    (LiveModeChecked /\ Declared
        /\ "live-mode" \in DOMAIN SelectedEnvironment
        /\ SelectedEnvironment["live-mode"] = Bool(FALSE)) =>
        /\ pc = "failed"
        /\ error.what = "NotLiveEnvironment"
        /\ error.env = environment_name
        /\ passed = <<"environment">>

\* C7 witness: an OandaBrokerage/OandaBrokerage environment with live-mode
\* false and every required property present and non-empty has failed with
\* NotLiveEnvironment
C7_Witness ==
    /\ pc = "failed"
    /\ BothSet
    /\ SelectedEnvironment["live-mode-brokerage"] = Str("OandaBrokerage")
    /\ SelectedEnvironment["data-queue-handler"] = Str("OandaBrokerage")
    /\ "live-mode" \in DOMAIN SelectedEnvironment
    /\ SelectedEnvironment["live-mode"] = Bool(FALSE)
    /\ ExpectedMissing(lean_config, SelectedEnvironment) = {}
    /\ error.what = "NotLiveEnvironment"

\* ------------------------------------------------------------------------
\* C8
\* ------------------------------------------------------------------------

\* C8 as stated: NotLiveEnvironment is raised only when live-mode is present
\* and falsy, and an environment without a live-mode key is not rejected by the
\* live-mode check: the check passes and the validator runs.
C8_AbsentLiveModeIsNotRejected ==
    /\ error.what = "NotLiveEnvironment" =>
           /\ "live-mode" \in DOMAIN SelectedEnvironment
           /\ ~PyTruthy(SelectedEnvironment["live-mode"])
    /\ (LiveModeChecked /\ Declared /\ "live-mode" \notin DOMAIN SelectedEnvironment) =>
           /\ Len(passed) >= 2
           /\ passed[2] = "live-mode"

\* ------------------------------------------------------------------------
\* C9
\* ------------------------------------------------------------------------

\* C9: whenever the validator has run on an environment that declares
\* live-mode-brokerage but not data-queue-handler, it has failed with
\* MissingRequiredKey for data-queue-handler without reading the requirement
\* tables, whether or not the properties the brokerage requires are present.
C9_MissingHandlerBeforeTables ==
    (ValidatorRan /\ Declared
        /\ "live-mode-brokerage" \in DOMAIN SelectedEnvironment
        /\ "data-queue-handler" \notin DOMAIN SelectedEnvironment) =>
        /\ pc = "failed"
        /\ error = MissingRequiredKey(environment_name, "data-queue-handler")
        /\ ~tables_consulted

\* C9 witness: the environment declares OandaBrokerage and no
\* data-queue-handler, a property OandaBrokerage requires is absent, and the
\* failure is MissingRequiredKey for data-queue-handler
C9_Witness ==
    /\ ValidatorRan /\ Declared
    /\ "live-mode-brokerage" \in DOMAIN SelectedEnvironment
    /\ SelectedEnvironment["live-mode-brokerage"] = Str("OandaBrokerage")
    /\ "data-queue-handler" \notin DOMAIN SelectedEnvironment
    /\ "oanda-access-token" \notin DOMAIN lean_config.top
    /\ error.what = "MissingRequiredKey"
    /\ error.keys = <<"data-queue-handler">>

\* ------------------------------------------------------------------------
\* C10
\* ------------------------------------------------------------------------

\* C10: the validator never fails on an identifier: it fails only for an
\* unspecified key or for missing properties, the properties it reports are
\* required by an identifier that is exactly a key of its table, and when
\* neither the brokerage nor the data-queue-handler is a key of its table the
\* validator has returned with no missing property (the one error that can
\* follow is the launcher's).
C10_UnknownIdentifiersRequireNothing ==
    (ValidatorRan /\ BothSet) =>
        /\ tables_consulted
        /\ error.what \in {"none", "MissingRequiredProperties", "LaunchFailed"}
        /\ error = LaunchFailed => Launched
        /\ ReportedMissing \subseteq RequiredSet(SelectedEnvironment)
        /\ (/\ SelectedEnvironment["live-mode-brokerage"].s \notin BrokerageNames
            /\ SelectedEnvironment["data-queue-handler"].s \notin DataQueueHandlerNames) =>
               /\ error \in {NoError, LaunchFailed}
               /\ passed = <<"environment", "live-mode", "properties">>

\* C10 witness: the brokerage is a case variant of OandaBrokerage, the
\* data-queue-handler a suffix of the Interactive Brokers handler, properties
\* of both are absent, and the validator has returned
C10_Witness ==
    /\ ValidatorRan /\ BothSet
    /\ SelectedEnvironment["live-mode-brokerage"] = Str("oandabrokerage")
    /\ SelectedEnvironment["data-queue-handler"] = Str("InteractiveBrokersBrokerage")
    /\ "oanda-account-id" \notin DOMAIN lean_config.top
    /\ "ib-account" \notin DOMAIN lean_config.top
    /\ passed = <<"environment", "live-mode", "properties">>
    /\ error = NoError

\* ------------------------------------------------------------------------
\* C11
\* ------------------------------------------------------------------------

\* C11: a call of the validator, whether it returns or raises, leaves the
\* configuration document (its top-level keys and every environment), the
\* configuration file and both requirement tables as they were before the call.
C11_ValidationHasNoSideEffects ==
    [][pc = "validate" =>
          /\ pc' \in {"failed", "pull_image"}
          /\ lean_config' = lean_config
          /\ stored_config' = stored_config
          /\ requirement_tables' = requirement_tables
          /\ _environment_skeleton' = _environment_skeleton]_vars

\* C11 witness: the validator has raised for missing properties of a known
\* brokerage, and the document and the tables are the ones it was called with
C11_Witness ==
    /\ ValidatorRan /\ BothSet
    /\ SelectedEnvironment["live-mode-brokerage"] = Str("InteractiveBrokersBrokerage")
    /\ SelectedEnvironment["data-queue-handler"] = Str("OandaBrokerage")
    /\ error.what = "MissingRequiredProperties"
    /\ lean_config = GetCompleteLeanConfig(stored_config)
    /\ requirement_tables = InitialTables

\* ------------------------------------------------------------------------
\* C12
\* ------------------------------------------------------------------------

\* C12: in every state, for every brokerage identifier, the properties that
\* the table of data queue handlers requires of the brokerage's live
\* counterpart include every property the brokerage table requires of the
\* brokerage.
C12_HandlerRequiresWhatBrokerageRequires ==
    \A b \in BrokerageNames :
        /\ DataQueueHandlerOf[b] \in DOMAIN requirement_tables.data_queue_handler
        /\ Range(requirement_tables.brokerage[b])
               \subseteq Range(requirement_tables.data_queue_handler[DataQueueHandlerOf[b]])

\* C12 witness: for the Interactive Brokers brokerage with its counterpart as
\* handler, the validator reports the one missing property that only the
\* handler requires
C12_Witness ==
    /\ ValidatorRan /\ BothSet
    /\ SelectedEnvironment["live-mode-brokerage"] = Str("InteractiveBrokersBrokerage")
    /\ SelectedEnvironment["data-queue-handler"] = Str(InteractiveBrokersDataQueueHandler)
    /\ ReportedMissing = {"ib-enable-delayed-streaming-data"}
    /\ "ib-enable-delayed-streaming-data"
           \notin Range(requirement_tables.brokerage["InteractiveBrokersBrokerage"])

\* ------------------------------------------------------------------------
\* Vocabulary of the properties of the build
\* ------------------------------------------------------------------------

\* The environment the build of this invocation made
BuiltEnvironment == lean_config.environments[built.name]

\* The environment of the same name in the document the build started from
HadEnvironment == built.base.has_environments /\ built.name \in DOMAIN built.base.environments

\* The two keys the configurers write into the environment
ConfigurerKeys == {"live-mode-brokerage", "data-queue-handler"}

\* The brokerage configuration, the data-feed configuration and the base
\* configuration as one mapping: an entry of a configuration stands for the
\* key, else the entry of the base does
ConfigurationUnion ==
    Updated(Updated(built.base.top, built.brokerage.entries), built.data_feed.entries)

\* The keys the tables require of the brokerage and the data feed of the build
RequiredOfBuild ==
    RequiredOf(_required_brokerage_properties, built.brokerage.id)
        \cup RequiredOf(_required_data_queue_handler_properties, built.data_feed.id)

\* ------------------------------------------------------------------------
\* C13
\* ------------------------------------------------------------------------

\* C13: the build stores a copy of the skeleton, so in every state of the
\* process, after any sequence of builds, the shared skeleton holds exactly
\* its five fixed keys with the values the module gave them.
C13_SkeletonKeepsItsFiveKeys ==
    /\ DOMAIN _environment_skeleton = SkeletonKeys
    /\ _environment_skeleton = InitialSkeleton

\* ------------------------------------------------------------------------
\* C14
\* ------------------------------------------------------------------------

\* C14: after the build of an environment E, the environment E of the document
\* holds no sub-key of the previous E that is in neither the skeleton nor among
\* the keys the configurers write, and the keys the configurers write hold the
\* identifiers of this build, not those of the previous E.
C14_PreviousEnvironmentIsReplaced ==
    built.done =>
        /\ DOMAIN BuiltEnvironment \subseteq SkeletonKeys \cup ConfigurerKeys
        /\ HadEnvironment =>
              \A k \in DOMAIN built.base.environments[built.name] :
                  k \notin DOMAIN built.skeleton \cup ConfigurerKeys
                      => k \notin DOMAIN BuiltEnvironment
        /\ BuiltEnvironment["live-mode-brokerage"] = Str(built.brokerage.id)
        /\ BuiltEnvironment["data-queue-handler"] = Str(built.data_feed.id)

\* C14 witness: the document declared lean-cli with a history-provider and the
\* OANDA brokerage; after a paper-trading build the environment has neither
C14_Witness ==
    /\ built.done /\ HadEnvironment
    /\ "history-provider" \in DOMAIN built.base.environments[built.name]
    /\ built.base.environments[built.name]["live-mode-brokerage"] = Str("OandaBrokerage")
    /\ "history-provider" \notin DOMAIN BuiltEnvironment
    /\ BuiltEnvironment["live-mode-brokerage"] = Str("PaperTradingBrokerage")

\* ------------------------------------------------------------------------
\* C15
\* ------------------------------------------------------------------------

\* C15 as stated: after the build of an environment E the document has an
\* environments mapping, and every other environment that base.environments
\* declared is still declared, unchanged.
C15_OtherEnvironmentsAreKept ==
    built.done =>
        /\ lean_config.has_environments
        /\ built.base.has_environments =>
              \A n \in DOMAIN built.base.environments \ {built.name} :
                  /\ n \in DOMAIN lean_config.environments
                  /\ lean_config.environments[n] = built.base.environments[n]

\* C15, amended: after the build of an environment E the document has an
\* environments mapping that declares E and nothing else, whatever
\* base.environments declared; the configuration file is as it was.
C15_OnlyTheBuiltEnvironmentIsDeclared ==
    built.done =>
        /\ lean_config.has_environments
        /\ DOMAIN lean_config.environments = {built.name}
        /\ GetCompleteLeanConfig(stored_config) = built.base

\* C15 witness: the base declared another environment next to lean-cli, and
\* the built document declares lean-cli only
C15_Witness ==
    /\ built.done
    /\ built.base.has_environments
    /\ OtherEnvironmentName \in DOMAIN built.base.environments
    /\ DOMAIN lean_config.environments = {"lean-cli"}
    /\ OtherEnvironmentName \in DOMAIN stored_config.environments

\* ------------------------------------------------------------------------
\* C16
\* ------------------------------------------------------------------------

\* C16: the build applied to the document it has produced, with the same
\* environment name, brokerage configuration and data-feed configuration, and
\* with the skeleton as it was given or as the build left it, yields that same
\* document.
C16_BuildIsIdempotent ==
    built.done =>
        \A skeleton \in {built.skeleton, _environment_skeleton} :
            BuildEnvironment(lean_config, built.name, skeleton,
                             built.brokerage, built.data_feed).config = lean_config

\* C16 witness: a build that replaced an environment and wrote top-level
\* entries, so that the document differs from its base
C16_Witness ==
    /\ built.done /\ HadEnvironment
    /\ lean_config # built.base
    /\ lean_config.top # built.base.top
    /\ BuildEnvironment(built.base, built.name, built.skeleton,
                        built.brokerage, built.data_feed).config = lean_config

\* ------------------------------------------------------------------------
\* C17
\* ------------------------------------------------------------------------

\* C17: after the build, every entry of the brokerage and of the data-feed
\* configuration is a top-level key of the document with its value and is not
\* a key of the environment; the environment holds exactly the five skeleton
\* keys, with live-mode true, and live-mode-brokerage and data-queue-handler,
\* set to the identifiers of the chosen brokerage and data feed; built from a
\* document without an environments key with paper trading, lean-cli has
\* live-mode true and live-mode-brokerage "PaperTradingBrokerage".
C17_EntriesAtTopLevelKeysInEnvironment ==
    built.done =>
        LET entries == Updated(built.brokerage.entries, built.data_feed.entries)
        IN  /\ \A k \in DOMAIN entries :
                  /\ k \in DOMAIN lean_config.top
                  /\ lean_config.top[k] = entries[k]
                  /\ k \notin DOMAIN BuiltEnvironment
            /\ DOMAIN BuiltEnvironment = SkeletonKeys \cup ConfigurerKeys
            /\ \A k \in SkeletonKeys : BuiltEnvironment[k] = InitialSkeleton[k]
            /\ BuiltEnvironment["live-mode"] = Bool(TRUE)
            /\ BuiltEnvironment["live-mode-brokerage"] = Str(BrokerageId(built.brokerage.name))
            /\ BuiltEnvironment["data-queue-handler"] = Str(DataFeedId(built.data_feed.name))
            /\ (~built.base.has_environments /\ built.brokerage.name = PaperTradingName) =>
                  /\ built.name = "lean-cli"
                  /\ BuiltEnvironment["live-mode-brokerage"] = Str("PaperTradingBrokerage")

\* C17 witness: lean-cli built with paper trading from a document without an
\* environments key
C17_Witness ==
    /\ built.done
    /\ ~built.base.has_environments
    /\ built.name = "lean-cli"
    /\ built.brokerage.name = PaperTradingName
    /\ lean_config.top["paper-trading"] = Bool(TRUE)
    /\ BuiltEnvironment["live-mode"] = Bool(TRUE)
    /\ BuiltEnvironment["live-mode-brokerage"] = Str("PaperTradingBrokerage")

\* ------------------------------------------------------------------------
\* C18
\* ------------------------------------------------------------------------

C19_DefaultsAreLoadedInTheirInvocation ==
    \A i \in 1..Len(lookups) : lookups[i].loaded_in = invocation

\* ------------------------------------------------------------------------
\* C20
\* ------------------------------------------------------------------------

\* C20: within one invocation api_client.organizations.get_all() is called at
\* most once, however many organization lookups the invocation makes, and the
\* list it returned is kept for the later lookups also when it is empty.
C20_OrganizationsFetchedAtMostOnce ==
    /\ fetches <= 1
    /\ fetches = 1 => _cached_organizations.fetched

\* C20 witness: an invocation with Bloomberg as brokerage and as data feed has
\* made its two organization lookups with one fetch
C20_Witness ==
    /\ built.done
    /\ built.brokerage.name = BloombergName
    /\ built.data_feed.name = BloombergName
    /\ built.brokerage.entries["job-organization-id"] = Str(OrganizationOne.id)
    /\ built.data_feed.entries["job-organization-id"] = Str(OrganizationOne.id)
    /\ fetches = 1
    /\ _cached_organizations = [fetched |-> TRUE, list |-> <<OrganizationOne>>]

\* ------------------------------------------------------------------------
\* C21
\* ------------------------------------------------------------------------

\* The entries of calls made by the function fn
CallsOf(fn) == {i \in 1..Len(calls) : calls[i].fn = fn}

\* C21: when the container run has reported failure, the launcher has raised
\* after one run attempt, the command has ended with that error, and the
\* image-outdated warning has not been issued; a failed run and the end of the
\* command with the launcher's error go together.
C21_LaunchFailureIsFatal ==
    /\ (\E i \in CallsOf("run_image") : ~calls[i].succeeded) <=> pc = "launch_failed"
    /\ pc = "launch_failed" <=> error = LaunchFailed
    /\ pc = "launch_failed" =>
          /\ Cardinality(CallsOf("run_lean")) = 1
          /\ Cardinality(CallsOf("run_image")) = 1
          /\ CallsOf("warn_if_docker_image_outdated") = {}
          /\ calls[Len(calls)].fn = "run_image"

\* C21 witness: the launch of the default image without --update has failed,
\* where a launch that succeeds is followed by the warning
C21_Witness ==
    /\ pc = "launch_failed"
    /\ error = LaunchFailed
    /\ engine_image = DEFAULT_ENGINE_IMAGE
    /\ ~update
    /\ Cardinality(CallsOf("run_image")) = 1

\* ------------------------------------------------------------------------
\* C22
\* ------------------------------------------------------------------------

\* The positions of steps at which the step called name was taken
StepsOf(name) == {i \in 1..Len(steps) : steps[i].step = name}

\* The steps of the wizard that ask the user: the two selections, and the
\* build of a brokerage or data feed from prompted values
PromptSteps == StepsOf("prompt_list") \cup StepsOf("build_and_configure")

\* One of --environment, --brokerage, --data-feed is given
AnyGiven(parameters) ==
    \/ parameters.environment # None
    \/ parameters.brokerage # None
    \/ parameters.data_feed # None

\* C22: in an invocation whose command line gives any of --environment,
\* --brokerage or --data-feed no prompt is issued and the wizard is not
\* entered; the wizard is entered, and prompts are issued, only in an
\* invocation that gives none of the three.
C22_PromptsOnlyInTheWizard ==
    pc # "idle" =>
        /\ AnyGiven(params) => PromptSteps = {} /\ ~wizard.entered
        /\ wizard.entered => ~AnyGiven(params)
        /\ PromptSteps # {} => wizard.entered

\* C22 witness: an invocation with --data-feed and --brokerage has built its
\* environment, launched and returned without a prompt
C22_Witness ==
    /\ pc = "returned"
    /\ params.environment = None
    /\ params.brokerage = Str(PaperTradingName)
    /\ params.data_feed = Str(IQFeedName)
    /\ built.done
    /\ PromptSteps = {}

\* ------------------------------------------------------------------------
\* C26
\* ------------------------------------------------------------------------

\* --environment is not given and exactly one of --brokerage, --data-feed is
ExactlyOneSelected(parameters) ==
    /\ parameters.environment = None
    /\ (parameters.brokerage = None) # (parameters.data_feed = None)

\* The one of brokerage, data_feed that the command line does not give
MissingSelection(parameters) ==
    IF parameters.brokerage = None THEN <<"brokerage">> ELSE <<"data_feed">>

\* The body of live() has been entered in this invocation
BodyEntered == StepsOf("live") # {}

\* The body of an invocation with exactly one of the two selections has ended
\* with the missing-parameter error, with no configurer built, no
\* configuration document loaded or modified by the body, no organization
\* fetched and nothing launched
AbortedOnMissingSelection ==
    /\ pc = "failed"
    /\ error = MissingParametersError(MissingSelection(params))
    /\ built = NotBuilt
    /\ lean_config = EmptyConfig
    /\ environment_name = ""
    /\ fetches = 0
    /\ calls = <<>>
    /\ passed = <<>>

WizardSteps ==
    SelectSeq(steps, LAMBDA s : s.step \in {"install_skeleton", "prompt_list",
                                             "build_and_configure"})

\* C29: the wizard's steps are, in this order, install the skeleton, select
\* the brokerage among all local brokerages, configure that brokerage, select
\* the data feed among exactly the data feeds associated with that brokerage,
\* configure that data feed; from the first of them on lean-cli is declared.
C29_WizardOrder ==
    LET w == WizardSteps
    IN  /\ w # <<>> <=> wizard.entered
        /\ Len(w) <= 5
        /\ Len(w) >= 1 =>
              /\ w[1].step = "install_skeleton"
              /\ lean_config.has_environments
              /\ DOMAIN lean_config.environments = {"lean-cli"}
        /\ Len(w) >= 2 =>
              /\ w[2].step = "prompt_list"
              /\ w[2].text = "Select a brokerage"
              /\ w[2].offered = LocalBrokerages
              /\ w[2].chosen \in LocalBrokerages
        /\ Len(w) >= 3 =>
              /\ w[3].step = "build_and_configure"
              /\ w[3].what = "brokerage"
              /\ w[3].name = w[2].chosen
        /\ Len(w) >= 4 =>
              /\ w[4].step = "prompt_list"
              /\ w[4].text = "Select a data feed"
              /\ w[4].offered = LocalBrokerageDataFeeds[w[2].chosen]
              /\ w[4].chosen \in w[4].offered
        /\ Len(w) >= 5 =>
              /\ w[5].step = "build_and_configure"
              /\ w[5].what = "data_feed"
              /\ w[5].name = w[4].chosen
        /\ (wizard.entered /\ built.done) =>
              /\ Len(w) = 5
              /\ built.interactive
              /\ built.brokerage.name = w[2].chosen
              /\ built.data_feed.name = w[4].chosen

\* C29 witness: the wizard has run to its end with OANDA as the brokerage,
\* which is offered its own data feed only
C29_Witness ==
    /\ wizard.entered
    /\ built.done
    /\ Len(WizardSteps) = 5
    /\ WizardSteps[2].chosen = OandaName
    /\ WizardSteps[4].offered = {OandaName}
    /\ WizardSteps[4].offered # LocalDataFeeds

\* ------------------------------------------------------------------------
\* C30
\* ------------------------------------------------------------------------

\* The steps of LeanCommand.invoke outside the body of the command
InvokeOrder ==
    <<[step |-> "get_cli_root_directory"], [step |-> "docker_checks"],
      [step |-> "show_announcements"], [step |-> "live"]>>

\* C30: an invocation whose configuration root does not resolve aborts with
\* the fatal error after the resolution alone: no Docker check, no
\* announcement, no body, no CLI-outdated warning; otherwise the
\* announcements are shown before the body is entered, and the CLI-outdated
\* warning is the last step and is taken only when the body has returned
\* without an error.
C30_InvokeOrder ==
    /\ error = ConfigRequired <=>
          (pc = "aborted" /\ steps = <<[step |-> "get_cli_root_directory"]>>)
    /\ error = ConfigRequired =>
          lean_config = EmptyConfig /\ calls = <<>> /\ built = NotBuilt
    /\ BodyEntered =>
          /\ Len(steps) >= 4
          /\ SubSeq(steps, 1, 4) = InvokeOrder
    /\ StepsOf("show_announcements") \subseteq {3}
    /\ StepsOf("warn_if_cli_outdated") # {} <=> pc = "returned"
    /\ pc = "returned" =>
          /\ StepsOf("warn_if_cli_outdated") = {Len(steps)}
          /\ error = NoError
          /\ BodyEntered
          /\ CallsOf("run_lean") # {}
    /\ pc \in {"failed", "launch_failed", "aborted", "replaced"} =>
          StepsOf("warn_if_cli_outdated") = {}

\* C30 witness: the second invocation of a process has resolved its
\* configuration root, shown the announcements, run the body without error
\* and issued the CLI-outdated warning
C30_Witness ==
    /\ invocation = 2
    /\ pc = "returned"
    /\ error = NoError
    /\ SubSeq(steps, 1, 4) = InvokeOrder
    /\ steps[Len(steps)] = [step |-> "warn_if_cli_outdated"]

\* ------------------------------------------------------------------------
\* C25
\* ------------------------------------------------------------------------

\* The errors of the checks that name the environment in their message
EnvironmentNamingErrors == {"EnvironmentUndeclared", "NotLiveEnvironment", "MissingRequiredKey"}

\* The missing-properties error lists missing keys and carries the path of the
\* configuration file and the documentation URL
MissingPropertiesErrorContext ==
    /\ error.exc = "RuntimeError"
    /\ error.keys # <<>>
    /\ \A i \in 1..Len(error.keys) : IsMissing(lean_config, error.keys[i])
    /\ error.path
    /\ error.url = DocumentationUrl

\* The undeclared-environment, not-live and missing-key errors name the
\* environment of the invocation and carry the documentation URL
NamingErrorContext ==
    /\ error.exc = "MoreInfoError"
    /\ error.env = environment_name
    /\ error.env \in EnvironmentOptions
    /\ error.url = DocumentationUrl
    /\ error.what = "MissingRequiredKey" =>
          /\ Len(error.keys) = 1
          /\ error.keys[1] \in Range(RequiredEnvironmentKeys)
    /\ error.what = "EnvironmentUndeclared" => error.path

\* C25 as stated: the missing-properties error contains the missing key
\* names, the environment name, the configuration path and a documentation
\* URL, and the undeclared-environment, not-live and missing-key errors each
\* name the environment and carry a documentation URL.
C25_FatalErrorsCarryContext ==
    /\ error.what = "MissingRequiredProperties" =>
          MissingPropertiesErrorContext /\ error.env = environment_name
    /\ error.what \in EnvironmentNamingErrors => NamingErrorContext

\* C25 amended: the missing-properties error contains the missing key names,
\* the configuration path and a documentation URL but not the environment
\* name; the undeclared-environment, not-live and missing-key errors each
\* name the environment and carry a documentation URL.
C25_FatalErrorsCarryTheirContext ==
    /\ error.what = "MissingRequiredProperties" =>
          MissingPropertiesErrorContext /\ error.env = "" /\ error.env # environment_name
    /\ error.what \in EnvironmentNamingErrors => NamingErrorContext

\* C25 witness: the validator has failed on the environment lean-cli with
\* two missing properties
C25_Witness ==
    /\ pc = "failed"
    /\ environment_name = "lean-cli"
    /\ error.what = "MissingRequiredProperties"
    /\ Len(error.keys) = 2
    /\ error.path
    /\ error.env = ""

\* ------------------------------------------------------------------------
\* C23
\* ------------------------------------------------------------------------

\* The processing of a given --lean-config has ended
LeanConfigOptionDone ==
    pc = "component_done" /\ call.fn = "--lean-config" /\ call.given

\* The default path of the configuration manager has been set
DefaultPathSet == StepsOf("set_default_lean_config_path") # {}

\* C23 as stated: a given configuration path is accepted, and made the
\* default path of the configuration manager, only if it exists and is a
\* file; a path that does not exist or is a directory fails the command with
\* the default path not set.
C23_AcceptedOnlyIfExistingFile ==
    /\ DefaultPathSet => (call.fn = "--lean-config" /\ call.given /\ call.kind = "file")
    /\ (LeanConfigOptionDone /\ call.kind \in {"nothing", "directory"}) =>
          /\ reply.error.exc = "BadParameter"
          /\ ~DefaultPathSet

\* C23 amended: a given configuration path is accepted exactly when it is a
\* valid path that exists and is not a directory, which includes an existing
\* path that is not a regular file; a path that is invalid, does not exist or
\* is a directory fails the conversion, and the callback that sets the default
\* path of the configuration manager runs only after a conversion that
\* succeeded. An option that is not given sets nothing.
C23_AcceptedUnlessMissingOrDirectory ==
    /\ DefaultPathSet =>
          /\ call.fn = "--lean-config" /\ call.given
          /\ call.kind \in {"file", "other"}
          /\ steps = <<[step |-> "convert"],
                       [step |-> "set_default_lean_config_path", path |-> Str(call.kind)]>>
          /\ reply.error = NoError
    /\ LeanConfigOptionDone =>
          /\ call.kind \in {"file", "other"} <=> DefaultPathSet
          /\ call.kind \in {"invalid", "nothing", "directory"} <=>
                reply.error.exc = "BadParameter"
          /\ call.kind = "nothing" => reply.error.what = "does not exist"
          /\ call.kind = "directory" => reply.error.what = "is a directory"
    /\ (pc = "component_done" /\ call.fn = "--lean-config" /\ ~call.given) =>
          steps = <<>> /\ reply.error = NoError

\* C23 witness: a path that exists and is neither a regular file nor a
\* directory has been accepted and made the default path
C23_Witness ==
    /\ LeanConfigOptionDone
    /\ call.kind = "other"
    /\ DefaultPathSet
    /\ reply.error = NoError

\* ------------------------------------------------------------------------
\* C24
\* ------------------------------------------------------------------------

\* An API call has ended
ApiCallDone == pc = "component_done" /\ call.fn = "api_request"

\* C24: a get or post whose first response is a 5xx error has sent exactly
\* two requests when it ends, and raises AuthenticationError when the second
\* response is a 500 and RequestFailedError when it is a 502; a call whose
\* first response is not a 5xx error has sent exactly one request, and returns
\* the data when that response is successful. No call sends more than two
\* requests.
C24_RetriedOnceOn5xx ==
    /\ Len(Requests) <= 2
    /\ \A i \in 1..Len(Requests) : Requests[i].method = call.method
    /\ Len(Requests) = 2 => Requests[1].status \in {500, 502}
    /\ ApiCallDone =>
          /\ Requests[1].status \in {500, 502} <=> Len(Requests) = 2
          /\ Requests[1].status \notin {500, 502} <=> Len(Requests) = 1
          /\ Requests[Len(Requests)].status = 500 => reply.result = "AuthenticationError"
          /\ Requests[Len(Requests)].status = 502 => reply.result = "RequestFailedError"
          /\ Requests[Len(Requests)].status = 404 => reply.result = "RequestFailedError"
          /\ reply.result = "data" => Requests[Len(Requests)].status = 200
          /\ (reply.result = "data" /\ Requests[1].status = 200) => Len(Requests) = 1

\* C24 witness: a post answered 502 twice has ended with RequestFailedError
\* after its second request
C24_Witness ==
    /\ ApiCallDone
    /\ call.method = "post"
    /\ Len(Requests) = 2
    /\ Requests[1].status = 502
    /\ Requests[2].status = 502
    /\ reply.result = "RequestFailedError"

\* ------------------------------------------------------------------------
\* C27
\* ------------------------------------------------------------------------

\* A default lookup has ended
DefaultLookupDone == pc = "component_done" /\ call.fn = "_get_default_value"

\* C27: the default of an option is the value of its key in the persisted
\* configuration; it is None exactly when the key is absent or its value is
\* the empty string or, for iqfeed-iqconnect only, the value is not an
\* existing file; the values false and 0 are returned unchanged; for the other
\* keys the default is None exactly when the validator takes the property for
\* missing.
C27_DefaultIsTheConfiguredValue ==
    DefaultLookupDone =>
        LET top == call.config.top
            absent == call.key \notin DOMAIN top
            not_a_file == /\ call.key = "iqfeed-iqconnect"
                          /\ ~absent
                          /\ ~(top[call.key].t = "str" /\ top[call.key].s \in ExistingFiles)
        IN  /\ reply.value = None <=>
                  (absent \/ top[call.key] = Str("") \/ not_a_file)
            /\ reply.value # None => reply.value = top[call.key]
            /\ (~absent /\ top[call.key] \in {Bool(FALSE), Num(0)}) =>
                  reply.value = top[call.key]
            /\ call.key # "iqfeed-iqconnect" =>
                  (reply.value = None <=> IsMissing(call.config, call.key))

\* ------------------------------------------------------------------------
\* C28
\* ------------------------------------------------------------------------

\* ensure_parameters_exist has ended
EnsureDone == pc = "component_done" /\ call.fn = "ensure_parameters_exist"

\* The listed parameters whose value in ctx.params is None
ListedNone ==
    {param \in Range(call.parameters) :
        param \in DOMAIN call.ctx_params /\ call.ctx_params[param] = None}

\* The position at which a name is listed first
FirstIndex(parameters, param) ==
    CHOOSE i \in 1..Len(parameters) :
        parameters[i] = param /\ \A j \in 1..(i - 1) : parameters[j] # param

\* C28: ensure_parameters_exist raises exactly when a listed parameter has the
\* value None in ctx.params; the error lists every such parameter once, in the
\* order of the given list; when there is none the function returns, and
\* ctx.params is as it was.
C28_EveryMissingParameterListed ==
    EnsureDone =>
        /\ reply.error # NoError <=> ListedNone # {}
        /\ Range(reply.error.keys) = ListedNone
        /\ Len(reply.error.keys) = Cardinality(ListedNone)
        /\ \A i, j \in 1..Len(reply.error.keys) :
              i < j => FirstIndex(call.parameters, reply.error.keys[i])
                          < FirstIndex(call.parameters, reply.error.keys[j])
        /\ reply.error # NoError => reply.error = MissingParametersError(reply.error.keys)
        /\ reply.ctx_params = call.ctx_params
        /\ steps = <<>>

\* C28 witness: two of three listed parameters are None, one holds the empty
\* string, and the error lists the two in the order of the list, which is not
\* the alphabetical one
C28_Witness ==
    /\ EnsureDone
    /\ call.parameters = <<"oanda_account_id", "data_feed", "brokerage">>
    /\ call.ctx_params = [param \in ComponentParamNames |->
                             IF param = "data_feed" THEN Str("") ELSE None]
    /\ reply.error = MissingParametersError(<<"oanda_account_id", "brokerage">>)

====
